---- MODULE Spec2Model ----
(***************************************************************************)
(* Prompt version manager: the callable functions of functions/src/index.ts *)
(* (the Persistence Service, one db.execute per step) and the PromptManager *)
(* component of app/prompts/manager.tsx (Version Store, Edit Session,       *)
(* reconciliation fetches).                                                 *)
(***************************************************************************)
EXTENDS Integers, Sequences, FiniteSets, TLC

\* ------------------------------------------------------------------ bounds
\* rows the prompt_versions table may hold
MaxRows == 4
\* callable invocations issued in one behaviour of Spec, the mount fetch included
MaxCalls == 3
\* callable invocations issued in one behaviour of SpecSession
MaxSessionCalls == 5
\* callable invocations issued in one behaviour of SpecService
MaxServiceCalls == 2
\* callable invocations issued, one after the other, in one behaviour of SpecSerial
MaxSerialCalls == 3
\* rows of the table behind the version view of SpecView
MaxViewRows == 3
\* callable invocations issued in one behaviour of SpecEndToEnd, the mount fetch
\* included: three mutations and their reconciliation fetches
MaxEndToEndCalls == 7

\* ------------------------------------------------------------- value sets
\* prompt_types rows, in "ORDER BY id ASC" order
TypeOrder == <<"t1", "t2">>
TypeIds == {TypeOrder[i] : i \in 1..Len(TypeOrder)}
\* texts a content column or a draft may hold
Contents == {"", "a"}
\* JavaScript null
NULL == "null"
\* String(row.id)
IdStr(n) == ToString(n)
\* version ids a caller may name: every row the table may come to hold
VersionIds == {IdStr(n) : n \in 1..MaxRows}

\* the message handleSaveModal's catch puts in the error slot
SaveErrorMsg == "save failed"
\* the message handleAddVersion's catch puts in the error slot
AddErrorMsg == "add failed"
\* the message handleSetActiveVersion's catch puts in the error slot
ActiveErrorMsg == "set active failed"

VARIABLES
    db,                 \* table prompt_versions: row n has id n
    calls,              \* callable invocations in flight: invocation number -> state
    budget,             \* invocations that may still be issued
    promptTypes,        \* Version Store
    selectedTypeId,
    selectedVersionId,
    isCreatingVersion,
    isSettingActive,
    isSavingModal,
    error,              \* the single error slot
    isEditorOpen,
    editorTarget,       \* Edit Session target, or NoTarget
    modalContent,       \* Edit Session draft
    handlers,           \* suspended async handlers: call index -> closure
    modal,              \* dialog.showModal() works in this browser
    versionSort,        \* sort mode of the version list
    versionSearchQuery, \* text of the version search box
    lastOp              \* the guarded operation of the last step and its window.confirm

clientVars == <<promptTypes, selectedTypeId, selectedVersionId, isCreatingVersion,
                isSettingActive, isSavingModal, error, isEditorOpen, editorTarget,
                modalContent, handlers, modal, versionSort, versionSearchQuery>>
vars == <<db, calls, budget, promptTypes, selectedTypeId, selectedVersionId,
          isCreatingVersion, isSettingActive, isSavingModal, error, isEditorOpen,
          editorTarget, modalContent, handlers, modal, versionSort,
          versionSearchQuery, lastOp>>

\* ---------------------------------------------------------------- values
\* a prompt_versions row that does not exist / a PromptVersion that is absent
NoVersion == [id |-> NULL, version |-> 0, content |-> "", isActive |-> FALSE,
              createdAt |-> 0]
\* editorTarget === null
NoTarget == [promptTypeId |-> NULL, promptVersionId |-> NULL,
             promptVersionNumber |-> 0, originalContent |-> ""]

\* the last step ran no operation that consults confirmDiscardEditorChanges
NoOp == [op |-> "none", confirm |-> "none", caller |-> "none"]
\* a suspended handler that captured nothing
NoClosure == [kind |-> "fetch", typeId |-> NULL, versionId |-> NULL,
              target |-> NoTarget, content |-> "", dirty |-> FALSE]

\* ------------------------------------------------------------- ordering
\* comparators that look at the version number only
BeforeByNumberOnly(mode, a, b) ==
    CASE mode = "active" -> b.version - a.version < 0
      [] mode = "latest" -> b.version - a.version < 0
      [] mode = "oldest" -> a.version - b.version < 0
      [] mode = "sql" ->
           IF a.version # b.version THEN a.version > b.version ELSE a.id > b.id

\* the sort comparators: TRUE when the comparator puts a before b (returns < 0).
\*   "active", "latest", "oldest": the JavaScript comparators over PromptVersion
\*   "sql": ORDER BY is_active DESC, version DESC, id DESC over table rows
Before(mode, a, b) ==
    CASE mode = "active" ->
           IF a.isActive # b.isActive THEN a.isActive ELSE b.version - a.version < 0
      [] mode = "latest" -> b.version - a.version < 0
      [] mode = "oldest" -> a.version - b.version < 0
      [] mode = "sql" ->
           IF a.isActive # b.isActive THEN a.isActive
           ELSE IF a.version # b.version THEN a.version > b.version
           ELSE a.id > b.id

RECURSIVE InsertSorted(_, _, _)
\* x placed behind every element the comparator does not put after it
InsertSorted(mode, x, s) ==
    IF s = <<>> THEN <<x>>
    ELSE IF Before(mode, x, Head(s)) THEN <<x>> \o s
    ELSE <<Head(s)>> \o InsertSorted(mode, x, Tail(s))

RECURSIVE StableSort(_, _)
\* Array.prototype.sort (stable) with the comparator of the given mode
StableSort(mode, s) ==
    IF s = <<>> THEN <<>>
    ELSE InsertSorted(mode, s[Len(s)], StableSort(mode, SubSeq(s, 1, Len(s) - 1)))

\* ------------------------------------------------------ Persistence Service
\* one row of the result set as the PromptVersion the callables return
VersionOfRow(r) ==
    [id |-> IdStr(r.id), version |-> r.version, content |-> r.content,
     isActive |-> r.isActive, createdAt |-> r.createdAt]

\* the rows of one type as the dashboard query orders them (the rows of one
\* prompt_type_id are contiguous in the result set, in is_active DESC,
\* version DESC, id DESC order)
RowsOfType(d, t) == SelectSeq(StableSort("sql", d), LAMBDA r : r.typeId = t)

\* promptTypes as getPromptDashboardData (and getPrompts of page.tsx) build it
DashboardData(d) ==
    [i \in 1..Len(TypeOrder) |->
        [id |-> TypeOrder[i],
         versions |->
            StableSort("active",
                [k \in 1..Len(RowsOfType(d, TypeOrder[i])) |->
                    VersionOfRow(RowsOfType(d, TypeOrder[i])[k])])]]

\* the numbering without its "+ 1"
NextVersionOfNoIncrement(d, t) ==
    LET vs == {d[n].version : n \in {m \in 1..Len(d) : d[m].typeId = t}}
    IN  IF vs = {} THEN 1 ELSE CHOOSE v \in vs : \A w \in vs : w <= v

\* SELECT COALESCE(MAX(version), 0) + 1 ... WHERE prompt_type_id = t
NextVersionOf(d, t) ==
    LET vs == {d[n].version : n \in {m \in 1..Len(d) : d[m].typeId = t}}
    IN  (IF vs = {} THEN 0 ELSE CHOOSE v \in vs : \A w \in vs : w <= v) + 1

\* SELECT ... WHERE prompt_type_id = t AND version = v ORDER BY id DESC LIMIT 1
CreatedRowOf(d, t, v) ==
    LET ns == {n \in 1..Len(d) : d[n].typeId = t /\ d[n].version = v}
    IN  IF ns = {} THEN NoVersion
        ELSE VersionOfRow(d[CHOOSE n \in ns : \A m \in ns : m <= n])

\* the statement a callable of the given kind runs first
FirstPc(kind) ==
    CASE kind = "update" -> "exec"
      [] kind = "create" -> "select"
      [] kind = "setActive" -> "clear"
      [] kind = "fetch" -> "read"

\* a callable between its first statement and its return or throw
Running(c) == c.pc \in {"exec", "select", "insert", "reload", "clear", "set", "read"}

\* createPromptVersion invocations of type t that have not returned
CreatesInProgress(t) ==
    {i \in DOMAIN calls : calls[i].kind = "create" /\ calls[i].typeId = t
                           /\ Running(calls[i])}

\* createPromptVersion invocations that will still insert a row
PendingInserts ==
    {i \in DOMAIN calls : calls[i].kind = "create"
                           /\ calls[i].pc \in {"select", "insert"}}

\* versions of type t with is_active set
ActiveRows(d, t) == {n \in 1..Len(d) : d[n].typeId = t /\ d[n].isActive}

\* a new invocation of a callable: the argument check of lines 27, 74, 118 and
\* 193 throws before any statement runs.  pre records what held when the call
\* was issued: for a create, that no other create of the type was running (Issue
\* withdraws it when one starts later); for a setActive, that the target is a
\* version of the type and the type has exactly one active version.
NewCall(kind, from, typeId, versionId, content) ==
    [kind |-> kind, from |-> from, typeId |-> typeId, versionId |-> versionId,
     content |-> content,
     pc |-> IF \/ (kind = "update" /\ versionId = "")
               \/ (kind = "create" /\ typeId = "")
               \/ (kind = "setActive" /\ (typeId = "" \/ versionId = ""))
            THEN "err" ELSE FirstPc(kind),
     nextVersion |-> 0, created |-> NoVersion, snapshot |-> <<>>,
     pre |-> \/ (kind = "create" /\ CreatesInProgress(typeId) = {})
             \/ (kind = "setActive"
                 /\ Cardinality(ActiveRows(db, typeId)) = 1
                 /\ \E n \in 1..Len(db) : /\ IdStr(db[n].id) = versionId
                                          /\ db[n].typeId = typeId)]

\* the invocations after one more is issued: a create that starts while
\* another create of its type is running leaves neither of them alone
Issue(cs, n, c) ==
    [i \in DOMAIN cs \cup {n} |->
        IF i = n
        THEN (IF c.kind = "create" /\ \E j \in DOMAIN cs :
                    cs[j].kind = "create" /\ cs[j].typeId = c.typeId /\ Running(cs[j])
              THEN [c EXCEPT !.pre = FALSE] ELSE c)
        ELSE IF c.kind = "create" /\ cs[i].kind = "create"
                /\ cs[i].typeId = c.typeId /\ Running(cs[i])
        THEN [cs[i] EXCEPT !.pre = FALSE] ELSE cs[i]]

\* the number the next invocation gets
FreeId(cs) == CHOOSE n \in 1..(Cardinality(DOMAIN cs) + 1) :
                /\ n \notin DOMAIN cs
                /\ \A m \in 1..(n - 1) : m \in DOMAIN cs

\* the invocations after invocation i has answered its caller
Answered(cs, i) == [j \in DOMAIN cs \ {i} |-> cs[j]]

\* room for one more invocation (and, for a create, for its row)
CanIssue(kind) ==
    /\ budget > 0
    /\ kind = "create" => Len(db) + Cardinality(PendingInserts) < MaxRows

\* an updatePromptVersion that gives way to another writer of the same version
UpdateExecRejectsConcurrent(i) ==
    /\ calls[i].pc = "exec"
    /\ IF \E k \in DOMAIN calls \ {i} :
              calls[k].kind = "update" /\ calls[k].versionId = calls[i].versionId
       THEN /\ calls' = [calls EXCEPT ![i].pc = "err"]
            /\ db' = db
       ELSE /\ calls' = [calls EXCEPT ![i].pc = "ok"]
            /\ db' = [n \in 1..Len(db) |->
                        IF IdStr(db[n].id) = calls[i].versionId
                        THEN [db[n] EXCEPT !.content = calls[i].content]
                        ELSE db[n]]
    /\ lastOp' = NoOp
    /\ UNCHANGED <<budget, clientVars>>

\* an updatePromptVersion that answers before its UPDATE is applied
UpdateExecAcknowledgesOnly(i) ==
    /\ calls[i].pc = "exec"
    /\ calls' = [calls EXCEPT ![i].pc = "ok"]
    /\ lastOp' = NoOp
    /\ UNCHANGED <<db, budget, clientVars>>

\* an UPDATE that also bumps the version number of the row it writes
UpdateExecRenumbers(i) ==
    /\ calls[i].pc = "exec"
    /\ db' = [n \in 1..Len(db) |->
                IF IdStr(db[n].id) = calls[i].versionId
                THEN [db[n] EXCEPT !.content = calls[i].content,
                                   !.version = db[n].version + 1]
                ELSE db[n]]
    /\ calls' = [calls EXCEPT ![i].pc = "ok"]
    /\ lastOp' = NoOp
    /\ UNCHANGED <<budget, clientVars>>

\* updatePromptVersion, lines 85-88: UPDATE ... SET content = ? WHERE id = ?
UpdateExec(i) ==
    /\ calls[i].pc = "exec"
    /\ db' = [n \in 1..Len(db) |->
                IF IdStr(db[n].id) = calls[i].versionId
                THEN [db[n] EXCEPT !.content = calls[i].content] ELSE db[n]]
    /\ calls' = [calls EXCEPT ![i].pc = "ok"]
    /\ lastOp' = NoOp
    /\ UNCHANGED <<budget, clientVars>>

\* createPromptVersion, lines 126-134: SELECT COALESCE(MAX(version), 0) + 1
CreateSelect(i) ==
    /\ calls[i].pc = "select"
    /\ calls' = [calls EXCEPT ![i].pc = "insert",
                              ![i].nextVersion = NextVersionOf(db, calls[i].typeId)]
    /\ lastOp' = NoOp
    /\ UNCHANGED <<db, budget, clientVars>>

\* an INSERT that writes is_active = 1
CreateInsertActive(i) ==
    /\ calls[i].pc = "insert"
    /\ Len(db) < MaxRows
    /\ db' = Append(db, [id |-> Len(db) + 1, typeId |-> calls[i].typeId,
                         version |-> calls[i].nextVersion,
                         content |-> calls[i].content, isActive |-> TRUE,
                         createdAt |-> Len(db) + 1])
    /\ calls' = [calls EXCEPT ![i].pc = "reload"]
    /\ lastOp' = NoOp
    /\ UNCHANGED <<budget, clientVars>>

\* createPromptVersion, lines 137-143: INSERT ... VALUES (?, ?, ?, 0)
CreateInsert(i) ==
    /\ calls[i].pc = "insert"
    /\ Len(db) < MaxRows
    /\ db' = Append(db, [id |-> Len(db) + 1, typeId |-> calls[i].typeId,
                         version |-> calls[i].nextVersion,
                         content |-> calls[i].content, isActive |-> FALSE,
                         createdAt |-> Len(db) + 1])
    /\ calls' = [calls EXCEPT ![i].pc = "reload"]
    /\ lastOp' = NoOp
    /\ UNCHANGED <<budget, clientVars>>

\* createPromptVersion, lines 145-169: reload the created row and return it
CreateReload(i) ==
    /\ calls[i].pc = "reload"
    /\ LET row == CreatedRowOf(db, calls[i].typeId, calls[i].nextVersion)
       IN  calls' = [calls EXCEPT ![i].pc = IF row = NoVersion THEN "err" ELSE "ok",
                                  ![i].created = row]
    /\ lastOp' = NoOp
    /\ UNCHANGED <<db, budget, clientVars>>

\* a setActivePromptVersion whose first UPDATE clears nothing
SetActiveClearSkipped(i) ==
    /\ calls[i].pc = "clear"
    /\ calls' = [calls EXCEPT ![i].pc = "set"]
    /\ lastOp' = NoOp
    /\ UNCHANGED <<db, budget, clientVars>>

\* setActivePromptVersion, lines 202-207: SET is_active = FALSE for the type
SetActiveClear(i) ==
    /\ calls[i].pc = "clear"
    /\ db' = [n \in 1..Len(db) |->
                IF db[n].typeId = calls[i].typeId
                THEN [db[n] EXCEPT !.isActive = FALSE] ELSE db[n]]
    /\ calls' = [calls EXCEPT ![i].pc = "set"]
    /\ lastOp' = NoOp
    /\ UNCHANGED <<budget, clientVars>>

\* setActivePromptVersion, lines 209-221: SET is_active = TRUE for the version
SetActiveSet(i) ==
    /\ calls[i].pc = "set"
    /\ db' = [n \in 1..Len(db) |->
                IF IdStr(db[n].id) = calls[i].versionId
                   /\ db[n].typeId = calls[i].typeId
                THEN [db[n] EXCEPT !.isActive = TRUE] ELSE db[n]]
    /\ calls' = [calls EXCEPT ![i].pc = "ok"]
    /\ lastOp' = NoOp
    /\ UNCHANGED <<budget, clientVars>>

\* getPromptDashboardData, lines 243-302: read the table, build promptTypes
FetchRead(i) ==
    /\ calls[i].pc = "read"
    /\ calls' = [calls EXCEPT ![i].pc = "ok", ![i].snapshot = DashboardData(db)]
    /\ lastOp' = NoOp
    /\ UNCHANGED <<db, budget, clientVars>>

\* db.execute rejects (service unreachable, write error): the callable's catch
\* block rethrows and the statement has changed nothing
DbError(i) ==
    /\ Running(calls[i])
    /\ calls' = [calls EXCEPT ![i].pc = "err"]
    /\ lastOp' = NoOp
    /\ UNCHANGED <<db, budget, clientVars>>

\* one statement of one invocation
ServiceStep ==
    \E i \in DOMAIN calls :
        \/ UpdateExec(i)
        \/ CreateSelect(i)
        \/ CreateInsert(i)
        \/ CreateReload(i)
        \/ SetActiveClear(i)
        \/ SetActiveSet(i)
        \/ FetchRead(i)
        \/ DbError(i)

\* ----------------------------------------------- other callers of the service
\* another client invokes updatePromptVersion
CallUpdate ==
    \E v \in VersionIds, c \in Contents :
        /\ CanIssue("update")
        /\ calls' = Issue(calls, FreeId(calls), NewCall("update", "other", NULL, v, c))
        /\ budget' = budget - 1
        /\ lastOp' = NoOp
    /\ UNCHANGED <<db, clientVars>>

\* another client invokes createPromptVersion
CallCreate ==
    \E t \in TypeIds, c \in Contents :
        /\ CanIssue("create")
        /\ calls' = Issue(calls, FreeId(calls), NewCall("create", "other", t, NULL, c))
        /\ budget' = budget - 1
        /\ lastOp' = NoOp
    /\ UNCHANGED <<db, clientVars>>

\* another client invokes setActivePromptVersion
CallSetActive ==
    \E t \in TypeIds, v \in VersionIds :
        /\ CanIssue("setActive")
        /\ calls' = Issue(calls, FreeId(calls), NewCall("setActive", "other", t, v, ""))
        /\ budget' = budget - 1
        /\ lastOp' = NoOp
    /\ UNCHANGED <<db, clientVars>>

\* another client invokes getPromptDashboardData
CallFetch ==
    /\ CanIssue("fetch")
    /\ calls' = Issue(calls, FreeId(calls), NewCall("fetch", "other", NULL, NULL, ""))
    /\ budget' = budget - 1
    /\ lastOp' = NoOp
    /\ UNCHANGED <<db, clientVars>>

\* the response of a finished invocation reaches the other client
OtherReturn ==
    \E i \in DOMAIN calls :
        /\ calls[i].from = "other"
        /\ calls[i].pc \in {"ok", "err"}
        /\ calls' = Answered(calls, i)
        /\ lastOp' = NoOp
    /\ UNCHANGED <<db, budget, clientVars>>

\* ------------------------------------------------------------ initial state
\* the table when the page is built: type t1 has versions 1 (active) and 2,
\* type t2 has none
InitDb ==
    <<[id |-> 1, typeId |-> "t1", version |-> 1, content |-> "a",
       isActive |-> TRUE, createdAt |-> 1],
      [id |-> 2, typeId |-> "t1", version |-> 2, content |-> "",
       isActive |-> FALSE, createdAt |-> 2]>>

\* useState initial values, lines 56-71, over initialPromptTypes = getPrompts()
InitClient ==
    /\ promptTypes = DashboardData(InitDb)
    /\ selectedTypeId = DashboardData(InitDb)[1].id
    /\ selectedVersionId =
          IF DashboardData(InitDb)[1].versions = <<>> THEN NULL
          ELSE DashboardData(InitDb)[1].versions[1].id
    /\ isCreatingVersion = FALSE
    /\ isSettingActive = FALSE
    /\ isSavingModal = FALSE
    /\ error = NULL
    /\ isEditorOpen = FALSE
    /\ editorTarget = NoTarget
    /\ modalContent = ""
    /\ versionSort = "active"
    /\ versionSearchQuery = ""
    /\ lastOp = NoOp

\* ------------------------------------------------------------ PromptManager
\* promptTypes.find((type) => type.id === id) ?? null
FindType(store, id) ==
    LET is == {i \in 1..Len(store) : store[i].id = id}
    IN  IF is = {} THEN [id |-> NULL, versions |-> <<>>]
        ELSE store[CHOOSE i \in is : \A j \in is : i <= j]

\* versions.find((version) => version.id === id), NoVersion when there is none
FindVersion(versions, id) ==
    LET ks == {k \in 1..Len(versions) : versions[k].id = id}
    IN  IF ks = {} THEN NoVersion
        ELSE versions[CHOOSE k \in ks : \A j \in ks : k <= j]

\* selectedType, lines 140-143
SelectedType == FindType(promptTypes, selectedTypeId)

\* selectedVersion, lines 145-148: the selected one ?? versions[0] ?? null
SelectedVersion ==
    IF FindVersion(SelectedType.versions, selectedVersionId) # NoVersion
    THEN FindVersion(SelectedType.versions, selectedVersionId)
    ELSE IF SelectedType.versions # <<>> THEN SelectedType.versions[1]
    ELSE NoVersion

\* the letters String.prototype.toLowerCase maps, and what it maps them to
UpperLetters == "ABCDEFGHIJKLMNOPQRSTUVWXYZ"
LowerLetters == "abcdefghijklmnopqrstuvwxyz"

\* the character of the text s at position k
CharAt(s, k) == SubSeq(s, k, k)

\* toLowerCase of one character
LowerChar(c) ==
    IF \E k \in 1..Len(UpperLetters) : CharAt(UpperLetters, k) = c
    THEN CharAt(LowerLetters, CHOOSE k \in 1..Len(UpperLetters) :
                                 CharAt(UpperLetters, k) = c)
    ELSE c

RECURSIVE ToLowerCase(_)
\* String.prototype.toLowerCase
ToLowerCase(s) ==
    IF Len(s) = 0 THEN ""
    ELSE LowerChar(CharAt(s, 1)) \o ToLowerCase(SubSeq(s, 2, Len(s)))

\* the characters String.prototype.trim strips
WhiteSpace == {" ", "\t", "\n"}

RECURSIVE TrimStart(_)
TrimStart(s) ==
    IF Len(s) > 0 /\ CharAt(s, 1) \in WhiteSpace
    THEN TrimStart(SubSeq(s, 2, Len(s))) ELSE s

RECURSIVE TrimEnd(_)
TrimEnd(s) ==
    IF Len(s) > 0 /\ CharAt(s, Len(s)) \in WhiteSpace
    THEN TrimEnd(SubSeq(s, 1, Len(s) - 1)) ELSE s

\* String.prototype.trim
Trim(s) == TrimEnd(TrimStart(s))

\* String.prototype.includes: q occurs in s at some position
Includes(s, q) ==
    \E k \in 0..(Len(s) - Len(q)) : SubSeq(s, k + 1, k + Len(q)) = q

\* a filter that compares the content as it is written
MatchesExactCase(version, q) ==
    \/ Includes(ToString(version.version), q)
    \/ Includes(version.content, q)
    \/ (version.isActive /\ Includes("active", q))

\* the filter predicate of filteredVersions, lines 156-160
Matches(version, q) ==
    \/ Includes(ToString(version.version), q)
    \/ Includes(ToLowerCase(version.content), q)
    \/ (version.isActive /\ Includes("active", q))

\* q and searched of filteredVersions, lines 152-161
SearchedVersions(versions, query) ==
    LET q == ToLowerCase(Trim(query))
    IN  IF q = "" THEN versions
        ELSE SelectSeq(versions, LAMBDA version : Matches(version, q))

\* filteredVersions, lines 150-173: the selected type's versions, filtered by
\* the search text, then sorted in a copy
FilteredVersions ==
    StableSort(versionSort, SearchedVersions(SelectedType.versions, versionSearchQuery))

\* isModalDirty, lines 175-176
IsModalDirty(open, target, draft) ==
    IF open /\ target # NoTarget THEN draft # target.originalContent ELSE FALSE

\* the selection effects of lines 203-219, run after the render that follows a
\* state change: <<selectedTypeId, selectedVersionId>> once they have settled
SettledSelection(store, tid, vid) ==
    LET tid1 == IF FindType(store, tid).id = NULL /\ Len(store) > 0
                THEN store[1].id ELSE tid
        vid1 == IF FindType(store, tid).id = NULL /\ Len(store) > 0
                THEN (IF store[1].versions = <<>> THEN NULL
                      ELSE store[1].versions[1].id)
                ELSE vid
        type == FindType(store, tid1)
    IN  IF type.id = NULL THEN <<tid1, vid1>>
        ELSE IF type.versions = <<>> THEN <<tid1, NULL>>
        ELSE IF FindVersion(type.versions, vid1) = NoVersion
        THEN <<tid1, type.versions[1].id>>
        ELSE <<tid1, vid1>>

\* the state setters of one handler run, followed by the selection effects
Select(store, tid, vid) ==
    /\ selectedTypeId' = SettledSelection(store, tid, vid)[1]
    /\ selectedVersionId' = SettledSelection(store, tid, vid)[2]

\* confirmDiscardEditorChanges, lines 221-224, for the operation op: not dirty
\* returns true without asking; dirty returns what the user answers
\* caller is "user" for an event handler and the name of the async handler
\* whose continuation calls the operation otherwise
ConfirmDiscardFrom(caller, op, dirty, answer) ==
    /\ lastOp' = [op |-> op, caller |-> caller,
                  confirm |-> IF ~dirty THEN "none"
                              ELSE IF answer THEN "accepted" ELSE "declined"]
    /\ ~dirty => answer = TRUE
    /\ UNCHANGED modal

\* confirmDiscardEditorChanges in an event handler that leaves the sort mode
ConfirmDiscard(op, dirty, answer) ==
    /\ ConfirmDiscardFrom("user", op, dirty, answer)
    /\ UNCHANGED <<versionSort, versionSearchQuery>>

\* a step that runs no operation consulting confirmDiscardEditorChanges
NoConfirm ==
    /\ lastOp' = NoOp
    /\ UNCHANGED <<modal, versionSort, versionSearchQuery>>

\* the dialog effect, lines 89-107: an editor opened with showModal() makes the
\* page behind it inert; the fallback setAttribute('open') leaves it usable
PageUsable == ~(modal /\ isEditorOpen)

\* the handler returns at its "if (!confirmDiscardEditorChanges()) return"
Declined == UNCHANGED <<db, calls, budget, promptTypes, selectedTypeId,
                        selectedVersionId, isCreatingVersion, isSettingActive,
                        isSavingModal, error, isEditorOpen, editorTarget,
                        modalContent, handlers>>

\* mutations whose handler is suspended: each issues one fetch when it succeeds
PendingMutations == {i \in DOMAIN handlers : handlers[i].kind # "fetch"}

\* room for a mutation and for the reconciliation fetch that follows it
CanMutate(kind) ==
    /\ budget >= Cardinality(PendingMutations) + 2
    /\ kind = "create" => Len(db) + Cardinality(PendingInserts) < MaxRows

\* a callable is invoked and the handler suspends on its await
Await(kind, closure, typeId, versionId, content) ==
    /\ calls' = Issue(calls, FreeId(calls),
                      NewCall(kind, "client", typeId, versionId, content))
    /\ handlers' = (FreeId(calls) :> closure) @@ handlers
    /\ budget' = budget - 1

\* the awaited callable has answered; "void syncPromptTypesFromServer()" of a
\* success path invokes getPromptDashboardData before the handler ends
Resume(i, sync) ==
    IF sync
    THEN /\ calls' = Issue(Answered(calls, i), FreeId(Answered(calls, i)),
                           NewCall("fetch", "client", NULL, NULL, ""))
         /\ handlers' = (FreeId(Answered(calls, i)) :> NoClosure)
                            @@ Answered(handlers, i)
         /\ budget' = budget - 1
    ELSE /\ calls' = Answered(calls, i)
         /\ handlers' = Answered(handlers, i)
         /\ budget' = budget

\* the textarea's onChange, lines 804-815: setModalContent
EditDraft ==
    \E c \in Contents :
        /\ isEditorOpen /\ editorTarget # NoTarget
        /\ c # modalContent
        /\ modalContent' = c
        /\ NoConfirm
        /\ UNCHANGED <<db, calls, budget, promptTypes, selectedTypeId,
                       selectedVersionId, isCreatingVersion, isSettingActive,
                       isSavingModal, error, isEditorOpen, editorTarget, handlers>>

\* an openEditorForVersion that starts every session with an empty draft
OpenSessionEmptyDraft(store, tid, version) ==
    /\ Select(store, selectedTypeId, version.id)
    /\ editorTarget' = [promptTypeId |-> tid, promptVersionId |-> version.id,
                        promptVersionNumber |-> version.version,
                        originalContent |-> version.content]
    /\ modalContent' = ""
    /\ error' = NULL
    /\ isEditorOpen' = TRUE

\* the state openEditorForVersion sets, lines 233-245, for a version of the
\* type with id tid
OpenSession(store, tid, version) ==
    /\ Select(store, selectedTypeId, version.id)
    /\ editorTarget' = [promptTypeId |-> tid, promptVersionId |-> version.id,
                        promptVersionNumber |-> version.version,
                        originalContent |-> version.content]
    /\ modalContent' = version.content
    /\ error' = NULL
    /\ isEditorOpen' = TRUE

\* openEditorForVersion, lines 231-246, from a version of the rendered list
OpenEditorForVersion ==
    \E k \in 1..Len(SelectedType.versions), answer \in BOOLEAN :
        /\ PageUsable
        /\ ConfirmDiscard("openEditorForVersion",
                          IsModalDirty(isEditorOpen, editorTarget, modalContent), answer)
        /\ IF answer
           THEN /\ OpenSession(promptTypes, SelectedType.id, SelectedType.versions[k])
                /\ UNCHANGED <<db, calls, budget, promptTypes, isCreatingVersion,
                               isSettingActive, isSavingModal, handlers>>
           ELSE Declined

\* closeEditor, lines 248-253
CloseEditor ==
    \E answer \in BOOLEAN :
        /\ isEditorOpen
        /\ ConfirmDiscard("closeEditor",
                          IsModalDirty(isEditorOpen, editorTarget, modalContent), answer)
        /\ IF answer
           THEN /\ isEditorOpen' = FALSE
                /\ editorTarget' = NoTarget
                /\ error' = NULL
                /\ UNCHANGED <<db, calls, budget, promptTypes, selectedTypeId,
                               selectedVersionId, isCreatingVersion, isSettingActive,
                               isSavingModal, modalContent, handlers>>
           ELSE Declined

\* handleSelectType, lines 255-264
HandleSelectType ==
    \E i \in 1..Len(promptTypes), answer \in BOOLEAN :
        /\ PageUsable
        /\ ConfirmDiscardFrom("user", "handleSelectType",
                              IsModalDirty(isEditorOpen, editorTarget, modalContent),
                              answer)
        /\ versionSearchQuery' = IF answer THEN "" ELSE versionSearchQuery
        /\ versionSort' = IF answer THEN "active" ELSE versionSort
        /\ IF answer
           THEN /\ Select(promptTypes, promptTypes[i].id,
                          IF promptTypes[i].versions = <<>> THEN NULL
                          ELSE promptTypes[i].versions[1].id)
                /\ isEditorOpen' = FALSE
                /\ editorTarget' = NoTarget
                /\ error' = NULL
                /\ UNCHANGED <<db, calls, budget, promptTypes, isCreatingVersion,
                               isSettingActive, isSavingModal, modalContent, handlers>>
           ELSE Declined

\* handleSelectVersion, lines 266-272, from a version of the rendered list
HandleSelectVersion ==
    \E k \in 1..Len(SelectedType.versions), answer \in BOOLEAN :
        /\ PageUsable
        /\ ConfirmDiscard("handleSelectVersion",
                          IsModalDirty(isEditorOpen, editorTarget, modalContent), answer)
        /\ IF answer
           THEN /\ Select(promptTypes, selectedTypeId, SelectedType.versions[k].id)
                /\ isEditorOpen' = FALSE
                /\ editorTarget' = NoTarget
                /\ error' = NULL
                /\ UNCHANGED <<db, calls, budget, promptTypes, isCreatingVersion,
                               isSettingActive, isSavingModal, modalContent, handlers>>
           ELSE Declined

\* the sort select's onChange, lines 574-577: setVersionSort
HandleSortChange ==
    \E mode \in {"active", "latest", "oldest"} :
        /\ PageUsable
        /\ mode # versionSort
        /\ versionSort' = mode
        /\ lastOp' = NoOp
        /\ UNCHANGED <<db, calls, budget, promptTypes, selectedTypeId,
                       selectedVersionId, isCreatingVersion, isSettingActive,
                       isSavingModal, error, isEditorOpen, editorTarget,
                       modalContent, handlers, modal, versionSearchQuery>>

\* texts typed into the version search box
SearchQueries == {"", " ", "2", "aB ", " Act", "x"}

\* the search box's onChange, lines 609-610: setVersionSearchQuery
HandleSearchChange ==
    \E query \in SearchQueries :
        /\ PageUsable
        /\ SelectedType.id # NULL
        /\ query # versionSearchQuery
        /\ versionSearchQuery' = query
        /\ lastOp' = NoOp
        /\ UNCHANGED <<db, calls, budget, promptTypes, selectedTypeId,
                       selectedVersionId, isCreatingVersion, isSettingActive,
                       isSavingModal, error, isEditorOpen, editorTarget,
                       modalContent, handlers, modal, versionSort>>

\* the setPromptTypes updater of handleSaveModal, lines 296-309
ApplyContentUpdate(store, typeId, versionId, content) ==
    [i \in 1..Len(store) |->
        IF store[i].id # typeId THEN store[i]
        ELSE [store[i] EXCEPT !.versions =
                [k \in 1..Len(store[i].versions) |->
                    IF store[i].versions[k].id = versionId
                    THEN [store[i].versions[k] EXCEPT !.content = content]
                    ELSE store[i].versions[k]]]]

\* an updater that puts the created version first without sorting
ApplyVersionCreatedFirst(store, typeId, created) ==
    [i \in 1..Len(store) |->
        IF store[i].id # typeId THEN store[i]
        ELSE [store[i] EXCEPT !.versions = <<created>> \o store[i].versions]]

\* the setPromptTypes updater of handleAddVersion, lines 358-369
ApplyVersionCreated(store, typeId, created) ==
    [i \in 1..Len(store) |->
        IF store[i].id # typeId THEN store[i]
        ELSE [store[i] EXCEPT !.versions =
                StableSort("active", Append(store[i].versions, created))]]

\* the setPromptTypes updater of handleSetActiveVersion, lines 395-408
ApplyActiveChange(store, typeId, versionId) ==
    [i \in 1..Len(store) |->
        IF store[i].id # typeId THEN store[i]
        ELSE [store[i] EXCEPT !.versions =
                StableSort("active",
                    [k \in 1..Len(store[i].versions) |->
                        [store[i].versions[k] EXCEPT
                            !.isActive = (store[i].versions[k].id = versionId)]])]]

\* handleSaveModal that writes the draft to the store before the callable answers
HandleSaveModalOptimistic ==
    /\ isEditorOpen /\ editorTarget # NoTarget
    /\ ~isSavingModal
    /\ IsModalDirty(isEditorOpen, editorTarget, modalContent)
    /\ CanMutate("update")
    /\ isSavingModal' = TRUE
    /\ error' = NULL
    /\ promptTypes' = ApplyContentUpdate(promptTypes, editorTarget.promptTypeId,
                                         editorTarget.promptVersionId, modalContent)
    /\ Await("update",
             [NoClosure EXCEPT !.kind = "save", !.target = editorTarget,
                               !.content = modalContent],
             NULL, editorTarget.promptVersionId, modalContent)
    /\ NoConfirm
    /\ UNCHANGED <<db, selectedTypeId, selectedVersionId,
                   isCreatingVersion, isSettingActive, isEditorOpen, editorTarget,
                   modalContent>>

\* handleSaveModal behind a save button that stays enabled while saving
HandleSaveModalUnguarded ==
    /\ isEditorOpen /\ editorTarget # NoTarget
    /\ IsModalDirty(isEditorOpen, editorTarget, modalContent)
    /\ CanMutate("update")
    /\ isSavingModal' = TRUE
    /\ error' = NULL
    /\ Await("update",
             [NoClosure EXCEPT !.kind = "save", !.target = editorTarget,
                               !.content = modalContent],
             NULL, editorTarget.promptVersionId, modalContent)
    /\ NoConfirm
    /\ UNCHANGED <<db, promptTypes, selectedTypeId, selectedVersionId,
                   isCreatingVersion, isSettingActive, isEditorOpen, editorTarget,
                   modalContent>>

\* handleSaveModal up to its await, lines 285-294, behind the save button's
\* disabled={isSavingModal || !isModalDirty}, lines 757-765
HandleSaveModal ==
    /\ isEditorOpen /\ editorTarget # NoTarget
    /\ ~isSavingModal
    /\ IsModalDirty(isEditorOpen, editorTarget, modalContent)
    /\ CanMutate("update")
    /\ isSavingModal' = TRUE
    /\ error' = NULL
    /\ Await("update",
             [NoClosure EXCEPT !.kind = "save", !.target = editorTarget,
                               !.content = modalContent],
             NULL, editorTarget.promptVersionId, modalContent)
    /\ NoConfirm
    /\ UNCHANGED <<db, promptTypes, selectedTypeId, selectedVersionId,
                   isCreatingVersion, isSettingActive, isEditorOpen, editorTarget,
                   modalContent>>

\* handleSaveModal after updatePrompt resolved, lines 296-312 and 320-322
SaveSuccess(i) ==
    /\ i \in DOMAIN handlers /\ handlers[i].kind = "save"
    /\ calls[i].pc = "ok"
    /\ promptTypes' = ApplyContentUpdate(promptTypes,
                                         handlers[i].target.promptTypeId,
                                         handlers[i].target.promptVersionId,
                                         handlers[i].content)
    /\ Select(promptTypes', selectedTypeId, selectedVersionId)
    /\ isEditorOpen' = FALSE
    /\ editorTarget' = NoTarget
    /\ Resume(i, TRUE)
    /\ isSavingModal' = FALSE
    /\ NoConfirm
    /\ UNCHANGED <<db, isCreatingVersion, isSettingActive, error, modalContent>>

\* handleSaveModal after updatePrompt rejected, lines 313-322
SaveFailure(i) ==
    /\ i \in DOMAIN handlers /\ handlers[i].kind = "save"
    /\ calls[i].pc = "err"
    /\ error' = SaveErrorMsg
    /\ Resume(i, FALSE)
    /\ isSavingModal' = FALSE
    /\ NoConfirm
    /\ UNCHANGED <<db, promptTypes, selectedTypeId, selectedVersionId,
                   isCreatingVersion, isSettingActive, isEditorOpen, editorTarget,
                   modalContent>>

\* handleAddVersion(mode) up to its await, lines 339-350
AddVersion(mode) ==
    \E answer \in BOOLEAN :
        /\ PageUsable
        /\ SelectedType.id # NULL
        /\ ~isCreatingVersion
        /\ mode = "copy" => SelectedVersion # NoVersion
        /\ CanMutate("create")
        /\ ConfirmDiscard("handleAddVersion",
                          IsModalDirty(isEditorOpen, editorTarget, modalContent), answer)
        /\ IF answer
           THEN /\ isCreatingVersion' = TRUE
                /\ error' = NULL
                /\ Await("create",
                         [NoClosure EXCEPT
                            !.kind = "add", !.typeId = SelectedType.id,
                            !.dirty = IsModalDirty(isEditorOpen, editorTarget,
                                                   modalContent)],
                         SelectedType.id, NULL,
                         IF mode = "copy" THEN SelectedVersion.content ELSE "")
                /\ UNCHANGED <<db, promptTypes, selectedTypeId, selectedVersionId,
                               isSettingActive, isSavingModal, isEditorOpen,
                               editorTarget, modalContent>>
           ELSE Declined

\* the two add buttons, lines 532-550, with their disabled={isCreatingVersion}
\* and disabled={isCreatingVersion || !selectedVersion}
HandleAddVersion == \E mode \in {"blank", "copy"} : AddVersion(mode)

\* handleAddVersion after createPromptVersion resolved with a version, lines
\* 352-372 and 376-378; openEditorForVersion(created) runs in the closure of
\* the render that started the handler, so it asks again when that render was dirty
AddSuccess(i) ==
    \E answer \in BOOLEAN :
        /\ i \in DOMAIN handlers /\ handlers[i].kind = "add"
        /\ calls[i].pc = "ok" /\ calls[i].created # NoVersion
        /\ promptTypes' = ApplyVersionCreated(promptTypes, handlers[i].typeId,
                                              calls[i].created)
        /\ ConfirmDiscardFrom("handleAddVersion", "openEditorForVersion",
                              handlers[i].dirty, answer)
        /\ UNCHANGED <<versionSort, versionSearchQuery>>
        /\ IF answer
           THEN OpenSession(promptTypes', handlers[i].typeId, calls[i].created)
           ELSE /\ Select(promptTypes', selectedTypeId, selectedVersionId)
                /\ UNCHANGED <<editorTarget, modalContent, error, isEditorOpen>>
        /\ Resume(i, TRUE)
        /\ isCreatingVersion' = FALSE
        /\ UNCHANGED <<db, isSettingActive, isSavingModal>>

\* a catch block that swallows the failure without a message
AddFailureSilent(i) ==
    /\ i \in DOMAIN handlers /\ handlers[i].kind = "add"
    /\ calls[i].pc = "err" \/ (calls[i].pc = "ok" /\ calls[i].created = NoVersion)
    /\ Resume(i, FALSE)
    /\ isCreatingVersion' = FALSE
    /\ NoConfirm
    /\ UNCHANGED <<db, promptTypes, selectedTypeId, selectedVersionId,
                   isSettingActive, isSavingModal, isEditorOpen, editorTarget,
                   modalContent, error>>

\* handleAddVersion after createPromptVersion rejected or returned no version,
\* lines 356 and 373-378
AddFailure(i) ==
    /\ i \in DOMAIN handlers /\ handlers[i].kind = "add"
    /\ calls[i].pc = "err" \/ (calls[i].pc = "ok" /\ calls[i].created = NoVersion)
    /\ error' = AddErrorMsg
    /\ Resume(i, FALSE)
    /\ isCreatingVersion' = FALSE
    /\ NoConfirm
    /\ UNCHANGED <<db, promptTypes, selectedTypeId, selectedVersionId,
                   isSettingActive, isSavingModal, isEditorOpen, editorTarget,
                   modalContent>>

\* handleSetActiveVersion without its "already active" return
HandleSetActiveVersionAlways ==
    \E answer \in BOOLEAN :
        /\ PageUsable
        /\ SelectedType.id # NULL /\ SelectedVersion # NoVersion
        /\ ~isSettingActive
        /\ CanMutate("setActive")
        /\ ConfirmDiscard("handleSetActiveVersion",
                          IsModalDirty(isEditorOpen, editorTarget, modalContent), answer)
        /\ IF answer
           THEN /\ isSettingActive' = TRUE
                /\ error' = NULL
                /\ Await("setActive",
                         [NoClosure EXCEPT !.kind = "activate",
                                           !.typeId = SelectedType.id,
                                           !.versionId = SelectedVersion.id],
                         SelectedType.id, SelectedVersion.id, "")
                /\ UNCHANGED <<db, promptTypes, selectedTypeId, selectedVersionId,
                               isCreatingVersion, isSavingModal, isEditorOpen,
                               editorTarget, modalContent>>
           ELSE Declined

\* handleSetActiveVersion up to its await, lines 381-393, behind the button's
\* disabled={!selectedVersion || selectedVersion.isActive || isSettingActive}
HandleSetActiveVersion ==
    \E answer \in BOOLEAN :
        /\ PageUsable
        /\ SelectedType.id # NULL /\ SelectedVersion # NoVersion
        /\ ~SelectedVersion.isActive
        /\ ~isSettingActive
        /\ CanMutate("setActive")
        /\ ConfirmDiscard("handleSetActiveVersion",
                          IsModalDirty(isEditorOpen, editorTarget, modalContent), answer)
        /\ IF answer
           THEN /\ isSettingActive' = TRUE
                /\ error' = NULL
                /\ Await("setActive",
                         [NoClosure EXCEPT !.kind = "activate",
                                           !.typeId = SelectedType.id,
                                           !.versionId = SelectedVersion.id],
                         SelectedType.id, SelectedVersion.id, "")
                /\ UNCHANGED <<db, promptTypes, selectedTypeId, selectedVersionId,
                               isCreatingVersion, isSavingModal, isEditorOpen,
                               editorTarget, modalContent>>
           ELSE Declined

\* handleSetActiveVersion after setActivePromptVersion resolved, lines 395-409
SetActiveSuccess(i) ==
    /\ i \in DOMAIN handlers /\ handlers[i].kind = "activate"
    /\ calls[i].pc = "ok"
    /\ promptTypes' = ApplyActiveChange(promptTypes, handlers[i].typeId,
                                        handlers[i].versionId)
    /\ Select(promptTypes', selectedTypeId, selectedVersionId)
    /\ Resume(i, TRUE)
    /\ isSettingActive' = FALSE
    /\ NoConfirm
    /\ UNCHANGED <<db, isCreatingVersion, isSavingModal, error, isEditorOpen,
                   editorTarget, modalContent>>

\* a catch block that swallows the failure without a message
SetActiveFailureSilent(i) ==
    /\ i \in DOMAIN handlers /\ handlers[i].kind = "activate"
    /\ calls[i].pc = "err"
    /\ Resume(i, FALSE)
    /\ isSettingActive' = FALSE
    /\ NoConfirm
    /\ UNCHANGED <<db, promptTypes, selectedTypeId, selectedVersionId,
                   isCreatingVersion, isSavingModal, isEditorOpen, editorTarget,
                   modalContent, error>>

\* handleSetActiveVersion after setActivePromptVersion rejected, lines 410-415
SetActiveFailure(i) ==
    /\ i \in DOMAIN handlers /\ handlers[i].kind = "activate"
    /\ calls[i].pc = "err"
    /\ error' = ActiveErrorMsg
    /\ Resume(i, FALSE)
    /\ isSettingActive' = FALSE
    /\ NoConfirm
    /\ UNCHANGED <<db, promptTypes, selectedTypeId, selectedVersionId,
                   isCreatingVersion, isSavingModal, isEditorOpen, editorTarget,
                   modalContent>>

\* a sync that drops the snapshot it was given
SyncSuccessKeepsStore(i) ==
    /\ i \in DOMAIN handlers /\ handlers[i].kind = "fetch"
    /\ calls[i].pc = "ok"
    /\ Resume(i, FALSE)
    /\ NoConfirm
    /\ UNCHANGED <<db, promptTypes, selectedTypeId, selectedVersionId,
                   isCreatingVersion, isSettingActive, isSavingModal, error,
                   isEditorOpen, editorTarget, modalContent>>

\* a sync that ends the Edit Session when it installs a snapshot
SyncSuccessClosesSession(i) ==
    /\ i \in DOMAIN handlers /\ handlers[i].kind = "fetch"
    /\ calls[i].pc = "ok"
    /\ promptTypes' = calls[i].snapshot
    /\ Select(promptTypes', selectedTypeId, selectedVersionId)
    /\ isEditorOpen' = FALSE
    /\ editorTarget' = NoTarget
    /\ Resume(i, FALSE)
    /\ NoConfirm
    /\ UNCHANGED <<db, isCreatingVersion, isSettingActive, isSavingModal, error,
                   modalContent>>

\* syncPromptTypesFromServer after getPromptDashboardData resolved, lines
\* 112-114: setPromptTypes(data.promptTypes)
SyncSuccess(i) ==
    /\ i \in DOMAIN handlers /\ handlers[i].kind = "fetch"
    /\ calls[i].pc = "ok"
    /\ promptTypes' = calls[i].snapshot
    /\ Select(promptTypes', selectedTypeId, selectedVersionId)
    /\ Resume(i, FALSE)
    /\ NoConfirm
    /\ UNCHANGED <<db, isCreatingVersion, isSettingActive, isSavingModal, error,
                   isEditorOpen, editorTarget, modalContent>>

\* a catch block that falls back to the store the page was built with
SyncFailureRollsBack(i) ==
    /\ i \in DOMAIN handlers /\ handlers[i].kind = "fetch"
    /\ calls[i].pc = "err"
    /\ promptTypes' = DashboardData(InitDb)
    /\ Select(promptTypes', selectedTypeId, selectedVersionId)
    /\ Resume(i, FALSE)
    /\ NoConfirm
    /\ UNCHANGED <<db, isCreatingVersion, isSettingActive, isSavingModal, error,
                   isEditorOpen, editorTarget, modalContent>>

\* syncPromptTypesFromServer after getPromptDashboardData rejected, lines 115-117
SyncFailure(i) ==
    /\ i \in DOMAIN handlers /\ handlers[i].kind = "fetch"
    /\ calls[i].pc = "err"
    /\ Resume(i, FALSE)
    /\ NoConfirm
    /\ UNCHANGED <<db, promptTypes, selectedTypeId, selectedVersionId,
                   isCreatingVersion, isSettingActive, isSavingModal, error,
                   isEditorOpen, editorTarget, modalContent>>

\* a suspended handler resumes with the answer of its callable
Response ==
    \E i \in DOMAIN handlers :
        \/ SaveSuccess(i)
        \/ SaveFailure(i)
        \/ AddSuccess(i)
        \/ AddFailure(i)
        \/ SetActiveSuccess(i)
        \/ SetActiveFailure(i)
        \/ SyncSuccess(i)
        \/ SyncFailure(i)

\* the PromptManager after mount: the state of InitClient and the fetch of the
\* mount effect, lines 120-122, in flight
Init ==
    /\ db = InitDb
    /\ calls = (1 :> NewCall("fetch", "client", NULL, NULL, ""))
    /\ budget = MaxCalls - 1
    /\ InitClient
    /\ modal \in BOOLEAN
    /\ handlers = (1 :> NoClosure)

Next ==
    \/ EditDraft
    \/ OpenEditorForVersion
    \/ CloseEditor
    \/ HandleSelectType
    \/ HandleSelectVersion
    \/ HandleSaveModal
    \/ HandleAddVersion
    \/ HandleSetActiveVersion
    \/ Response
    \/ ServiceStep

Spec == Init /\ [][Next]_vars

\* the PromptManager with a getPromptDashboardData that does not fail: db.execute
\* rejects in the mutating callables only
ReliableFetchResponse ==
    \E i \in DOMAIN handlers :
        \/ SaveSuccess(i)
        \/ SaveFailure(i)
        \/ AddSuccess(i)
        \/ AddFailure(i)
        \/ SetActiveSuccess(i)
        \/ SetActiveFailure(i)
        \/ SyncSuccess(i)

ReliableFetchServiceStep ==
    \E i \in DOMAIN calls :
        \/ UpdateExec(i)
        \/ CreateSelect(i)
        \/ CreateInsert(i)
        \/ CreateReload(i)
        \/ SetActiveClear(i)
        \/ SetActiveSet(i)
        \/ FetchRead(i)
        \/ (calls[i].kind # "fetch" /\ DbError(i))

NextReliableFetch ==
    \/ EditDraft
    \/ OpenEditorForVersion
    \/ CloseEditor
    \/ HandleSelectType
    \/ HandleSelectVersion
    \/ HandleSaveModal
    \/ HandleAddVersion
    \/ HandleSetActiveVersion
    \/ ReliableFetchResponse
    \/ ReliableFetchServiceStep

SpecReliableFetch == Init /\ [][NextReliableFetch]_vars

\* a working session in one type, in a browser with modal dialogs: the
\* operator edits, saves and adds versions (no version is made active, the
\* selection is left alone), so that two mutations and their reconciliation
\* fetches fit in one behaviour
InitSession ==
    /\ db = InitDb
    /\ calls = (1 :> NewCall("fetch", "client", NULL, NULL, ""))
    /\ budget = MaxSessionCalls - 1
    /\ InitClient
    /\ modal = TRUE
    /\ handlers = (1 :> NoClosure)

SessionResponse ==
    \E i \in DOMAIN handlers :
        \/ SaveSuccess(i)
        \/ SaveFailure(i)
        \/ AddSuccess(i)
        \/ AddFailure(i)
        \/ SyncSuccess(i)
        \/ SyncFailure(i)

SessionServiceStep ==
    \E i \in DOMAIN calls :
        \/ UpdateExec(i)
        \/ CreateSelect(i)
        \/ CreateInsert(i)
        \/ CreateReload(i)
        \/ FetchRead(i)
        \/ DbError(i)

NextSession ==
    \/ EditDraft
    \/ OpenEditorForVersion
    \/ CloseEditor
    \/ HandleSaveModal
    \/ HandleAddVersion
    \/ SessionResponse
    \/ SessionServiceStep

SpecSession == InitSession /\ [][NextSession]_vars

\* an operator who adds versions and makes versions active, in a browser with
\* modal dialogs: the editor that opens on a created version is closed
\* untouched, so that a creation, an activation and their reconciliation
\* fetches fit in one behaviour
InitActivate ==
    /\ db = InitDb
    /\ calls = (1 :> NewCall("fetch", "client", NULL, NULL, ""))
    /\ budget = MaxSessionCalls - 1
    /\ InitClient
    /\ modal = TRUE
    /\ handlers = (1 :> NoClosure)

ActivateResponse ==
    \E i \in DOMAIN handlers :
        \/ AddSuccess(i)
        \/ AddFailure(i)
        \/ SetActiveSuccess(i)
        \/ SetActiveFailure(i)
        \/ SyncSuccess(i)
        \/ SyncFailure(i)

ActivateServiceStep ==
    \E i \in DOMAIN calls :
        \/ CreateSelect(i)
        \/ CreateInsert(i)
        \/ CreateReload(i)
        \/ SetActiveClear(i)
        \/ SetActiveSet(i)
        \/ FetchRead(i)
        \/ DbError(i)

NextActivate ==
    \/ CloseEditor
    \/ HandleSelectType
    \/ HandleSelectVersion
    \/ HandleAddVersion
    \/ HandleSetActiveVersion
    \/ ActivateResponse
    \/ ActivateServiceStep

SpecActivate == InitActivate /\ [][NextActivate]_vars

\* the service alone, called by any number of clients
InitService ==
    /\ db = InitDb
    /\ calls = <<>>
    /\ budget = MaxServiceCalls
    /\ InitClient
    /\ modal = TRUE
    /\ handlers = <<>>

NextService ==
    \/ CallUpdate
    \/ CallCreate
    \/ CallSetActive
    \/ CallFetch
    \/ ServiceStep
    \/ OtherReturn

SpecService == InitService /\ [][NextService]_vars

\* the version list of a page built over any table of up to MaxRows rows, once
\* the mount fetch has been handled: the operator picks types, versions and
\* sort modes.  Row n has id n; version numbers count up within each type.
SortTables ==
    UNION {{[n \in 1..len |->
                [id |-> n, typeId |-> shape[n].typeId,
                 version |-> Cardinality({m \in 1..n :
                                            shape[m].typeId = shape[n].typeId}),
                 content |-> "", isActive |-> shape[n].isActive, createdAt |-> n]] :
              shape \in [1..len -> [typeId : TypeIds, isActive : BOOLEAN]]} :
           len \in 0..MaxRows}

InitSort ==
    /\ db \in SortTables
    /\ calls = <<>>
    /\ budget = 0
    /\ promptTypes = DashboardData(db)
    /\ selectedTypeId = DashboardData(db)[1].id
    /\ selectedVersionId =
          IF DashboardData(db)[1].versions = <<>> THEN NULL
          ELSE DashboardData(db)[1].versions[1].id
    /\ isCreatingVersion = FALSE
    /\ isSettingActive = FALSE
    /\ isSavingModal = FALSE
    /\ error = NULL
    /\ isEditorOpen = FALSE
    /\ editorTarget = NoTarget
    /\ modalContent = ""
    /\ versionSort = "active"
    /\ versionSearchQuery = ""
    /\ lastOp = NoOp
    /\ modal = TRUE
    /\ handlers = <<>>

NextSort ==
    \/ HandleSortChange
    \/ HandleSelectType
    \/ HandleSelectVersion

SpecSort == InitSort /\ [][NextSort]_vars

\* the version view of a page built over any table of up to MaxViewRows rows
\* whose contents are texts with capitals and digits: the operator types in the
\* search box, picks sort modes and types
ViewContents == {"Ab", "v2"}

ViewTables ==
    UNION {{[n \in 1..len |->
                [id |-> n, typeId |-> shape[n].typeId,
                 version |-> Cardinality({m \in 1..n :
                                            shape[m].typeId = shape[n].typeId}),
                 content |-> shape[n].content, isActive |-> shape[n].isActive,
                 createdAt |-> n]] :
              shape \in [1..len -> [typeId : TypeIds, isActive : BOOLEAN,
                                    content : ViewContents]]} :
           len \in 0..MaxViewRows}

InitView ==
    /\ db \in ViewTables
    /\ calls = <<>>
    /\ budget = 0
    /\ promptTypes = DashboardData(db)
    /\ selectedTypeId = DashboardData(db)[1].id
    /\ selectedVersionId =
          IF DashboardData(db)[1].versions = <<>> THEN NULL
          ELSE DashboardData(db)[1].versions[1].id
    /\ isCreatingVersion = FALSE
    /\ isSettingActive = FALSE
    /\ isSavingModal = FALSE
    /\ error = NULL
    /\ isEditorOpen = FALSE
    /\ editorTarget = NoTarget
    /\ modalContent = ""
    /\ versionSort = "active"
    /\ versionSearchQuery = ""
    /\ lastOp = NoOp
    /\ modal = TRUE
    /\ handlers = <<>>

NextView ==
    \/ HandleSearchChange
    \/ HandleSortChange
    \/ HandleSelectType

SpecView == InitView /\ [][NextView]_vars

\* an operator who works step by step with a service that answers: a button is
\* pressed only when every request has been answered and handled, and no
\* db.execute rejects
InitEndToEnd ==
    /\ db = InitDb
    /\ calls = (1 :> NewCall("fetch", "client", NULL, NULL, ""))
    /\ budget = MaxEndToEndCalls - 1
    /\ InitClient
    /\ modal = TRUE
    /\ handlers = (1 :> NoClosure)

EndToEndOperator ==
    /\ calls = <<>>
    /\ \/ CloseEditor
       \/ HandleSelectType
       \/ HandleSelectVersion
       \/ HandleAddVersion
       \/ HandleSetActiveVersion

EndToEndResponse ==
    \E i \in DOMAIN handlers :
        \/ AddSuccess(i)
        \/ SetActiveSuccess(i)
        \/ SyncSuccess(i)

EndToEndServiceStep ==
    \E i \in DOMAIN calls :
        \/ CreateSelect(i)
        \/ CreateInsert(i)
        \/ CreateReload(i)
        \/ SetActiveClear(i)
        \/ SetActiveSet(i)
        \/ FetchRead(i)

NextEndToEnd ==
    \/ EndToEndOperator
    \/ EndToEndResponse
    \/ EndToEndServiceStep

SpecEndToEnd == InitEndToEnd /\ [][NextEndToEnd]_vars

\* an operator who edits and saves, with a service that answers every call and
\* a browser that runs every continuation: a statement that can run does run
\* (the callable resolves or rejects), and a settled promise resumes its handler
InitSaving ==
    /\ db = InitDb
    /\ calls = (1 :> NewCall("fetch", "client", NULL, NULL, ""))
    /\ budget = MaxCalls - 1
    /\ InitClient
    /\ modal = TRUE
    /\ handlers = (1 :> NoClosure)

SavingResponse ==
    \E i \in DOMAIN handlers :
        \/ SaveSuccess(i)
        \/ SaveFailure(i)
        \/ SyncSuccess(i)
        \/ SyncFailure(i)

SavingServiceStep ==
    \E i \in DOMAIN calls :
        \/ UpdateExec(i)
        \/ FetchRead(i)
        \/ DbError(i)

NextSaving ==
    \/ EditDraft
    \/ OpenEditorForVersion
    \/ CloseEditor
    \/ HandleSaveModal
    \/ SavingResponse
    \/ SavingServiceStep

SpecSaving ==
    /\ InitSaving /\ [][NextSaving]_vars
    /\ WF_vars(SavingServiceStep)
    /\ WF_vars(SavingResponse)

\* createPromptVersion alone, called by any number of clients: no other
\* callable runs, so a row holds the content it was inserted with
InitCreate ==
    /\ db = InitDb
    /\ calls = <<>>
    /\ budget = MaxServiceCalls
    /\ InitClient
    /\ modal = TRUE
    /\ handlers = <<>>

CreateServiceStep ==
    \E i \in DOMAIN calls :
        \/ CreateSelect(i)
        \/ CreateInsert(i)
        \/ CreateReload(i)
        \/ DbError(i)

NextCreate ==
    \/ CallCreate
    \/ CreateServiceStep
    \/ OtherReturn

SpecCreate == InitCreate /\ [][NextCreate]_vars

\* the service called by clients that take turns: a callable is invoked only
\* when no invocation is in flight
InitSerial ==
    /\ db = InitDb
    /\ calls = <<>>
    /\ budget = MaxSerialCalls
    /\ InitClient
    /\ modal = TRUE
    /\ handlers = <<>>

SerialCall ==
    /\ calls = <<>>
    /\ (CallUpdate \/ CallCreate \/ CallSetActive \/ CallFetch)

NextSerial ==
    \/ SerialCall
    \/ ServiceStep
    \/ OtherReturn

SpecSerial == InitSerial /\ [][NextSerial]_vars

\* ==================================================================== claims
\* C1: in every reachable state of the service each type has at most one
\* version with is_active set, whatever calls interleave.
C1_AtMostOneActivePerType ==
    \A t \in TypeIds : Cardinality(ActiveRows(db, t)) <= 1

\* the versions of type t a snapshot shows as active
ActiveInSnapshot(snapshot, t) ==
    {k \in 1..Len(FindType(snapshot, t).versions) :
        FindType(snapshot, t).versions[k].isActive}

\* C2: a getPromptDashboardData that reads the table while a setActive with a
\* valid target runs on a type that had one active version returns a snapshot
\* with exactly one active version for that type.
C2_TransitionAtomicForObservers ==
    [][\A f \in DOMAIN calls, a \in DOMAIN calls :
          (/\ calls[f].kind = "fetch" /\ calls[f].pc = "read"
           /\ f \in DOMAIN calls' /\ calls'[f].pc = "ok"
           /\ calls[a].kind = "setActive" /\ calls[a].pc \in {"clear", "set"}
           /\ calls[a].pre)
          => Cardinality(ActiveInSnapshot(calls'[f].snapshot, calls[a].typeId)) = 1
      ]_vars

\* C3: no two versions of one type share a version number, so two creates of
\* one type, overlapping or not, get distinct numbers.
C3_VersionNumbersUnique ==
    \A m \in 1..Len(db), n \in 1..Len(db) :
        (m # n /\ db[m].typeId = db[n].typeId) => db[m].version # db[n].version

\* the largest version number of type t, 0 when the type has no version
MaxVersion(d, t) ==
    LET vs == {d[n].version : n \in {m \in 1..Len(d) : d[m].typeId = t}}
    IN  IF vs = {} THEN 0 ELSE CHOOSE v \in vs : \A w \in vs : w <= v

\* C4: a create that runs while no other create of its type is in progress
\* inserts the number max(existing numbers of the type) + 1, 1 for an empty
\* type, which is above every number the type had.
C4_AloneCreateNumbersMaxPlusOne ==
    [][\A i \in DOMAIN calls :
          (/\ calls[i].kind = "create" /\ calls[i].pc = "insert" /\ calls[i].pre
           /\ i \in DOMAIN calls' /\ calls'[i].pc = "reload")
          => /\ Len(db') = Len(db) + 1
             /\ db'[Len(db')].typeId = calls[i].typeId
             /\ db'[Len(db')].version = MaxVersion(db, calls[i].typeId) + 1
             /\ \A n \in 1..Len(db) :
                   db[n].typeId = calls[i].typeId
                       => db[n].version < db'[Len(db')].version
      ]_vars

\* C4 witness: creates that ran alone returned number 3 for t1 (numbers 1, 2)
\* and number 1 for the empty t2
C4_Witness ==
    \E i \in DOMAIN calls, j \in DOMAIN calls :
        /\ calls[i].kind = "create" /\ calls[i].pc = "ok" /\ calls[i].pre
        /\ calls[i].typeId = "t1" /\ calls[i].created.version = 3
        /\ calls[j].kind = "create" /\ calls[j].pc = "ok" /\ calls[j].pre
        /\ calls[j].typeId = "t2" /\ calls[j].created.version = 1

\* ------------------------------------------------------ PromptManager claims
\* the suspended handler i resumes in this step
Resumed(i) == i \notin DOMAIN handlers' \/ handlers'[i] # handlers[i]

\* the save handler i resumes in this step with the given answer of its callable
SaveResumes(i, answer) ==
    /\ handlers[i].kind = "save"
    /\ calls[i].pc = answer
    /\ Resumed(i)

\* the content the store holds for version v of type t, NULL when it holds none
StoreContent(store, t, v) ==
    IF FindVersion(FindType(store, t).versions, v) = NoVersion THEN NULL
    ELSE FindVersion(FindType(store, t).versions, v).content

\* C5: the Version Store changes only in a step that handles the success
\* response of a mutation or of a fetch; sending a request, and every step
\* between sending it and handling its response, leaves the store as it is
\* unless another success response is handled.
C5_StoreChangesOnlyOnConfirmation ==
    [][promptTypes' # promptTypes
          => \E i \in DOMAIN handlers : calls[i].pc = "ok" /\ Resumed(i)
      ]_vars

\* C5 witness: updatePromptVersion has written the table and answered, its
\* response is not handled yet, and the store still holds the old content
C5_Witness ==
    \E i \in DOMAIN handlers :
        /\ handlers[i].kind = "save" /\ calls[i].pc = "ok"
        /\ StoreContent(promptTypes, handlers[i].target.promptTypeId,
                        handlers[i].target.promptVersionId) # handlers[i].content
        /\ StoreContent(promptTypes, handlers[i].target.promptTypeId,
                        handlers[i].target.promptVersionId) # NULL

\* C6: when a save fails, the store is as it was, the session is open on the
\* version that was being saved, its draft is untouched and still dirty, and
\* the error slot holds a message.
C6_FailedSaveReopensSession ==
    [][\A i \in DOMAIN handlers :
          SaveResumes(i, "err")
          => /\ promptTypes' = promptTypes
             /\ isEditorOpen'
             /\ editorTarget'.promptVersionId = handlers[i].target.promptVersionId
             /\ modalContent' = modalContent
             /\ IsModalDirty(isEditorOpen', editorTarget', modalContent')
             /\ error' # NULL
      ]_vars

\* What the failure path of handleSaveModal does guarantee: handling a failed
\* save changes nothing in the store, the selection or the session, puts a
\* message in the error slot and ends Saving; a session the user left as it
\* was when the save was requested is open on the same version with the draft
\* that was sent, still dirty.
FailedSaveChangesNothing ==
    [][\A i \in DOMAIN handlers :
          SaveResumes(i, "err")
          => /\ UNCHANGED <<promptTypes, selectedTypeId, selectedVersionId,
                            isEditorOpen, editorTarget, modalContent>>
             /\ error' # NULL
             /\ ~isSavingModal'
             /\ (isEditorOpen /\ editorTarget = handlers[i].target
                 /\ modalContent = handlers[i].content)
                => /\ isEditorOpen'
                   /\ editorTarget' = handlers[i].target
                   /\ modalContent' = handlers[i].content
                   /\ IsModalDirty(isEditorOpen', editorTarget', modalContent')
      ]_vars

\* the operations C7 names
GuardedOps == {"closeEditor", "handleSelectVersion", "handleSelectType",
               "openEditorForVersion", "handleSetActiveVersion"}

\* C7: each of closeEditor, handleSelectVersion, handleSelectType,
\* openEditorForVersion and handleSetActiveVersion asks for confirmation exactly
\* when the session is open and dirty; when the user declines, the session and
\* the selection stay as they are and the operation, when it is itself the
\* user's action, changes nothing else and sends no request.
C7_DirtyGuard ==
    [][lastOp'.op \in GuardedOps
          => /\ (lastOp'.confirm # "none")
                   <=> IsModalDirty(isEditorOpen, editorTarget, modalContent)
             /\ (lastOp'.confirm = "declined")
                   => /\ UNCHANGED <<isEditorOpen, editorTarget, modalContent,
                                     selectedTypeId, selectedVersionId>>
                      /\ (lastOp'.caller = "user")
                            => UNCHANGED <<promptTypes, error, calls, handlers,
                                           budget>>
      ]_vars

\* the suspended save handlers
SavesInFlight == {i \in DOMAIN handlers : handlers[i].kind = "save"}

\* C8: at most one save is in flight, and exactly while the session is Saving:
\* no second updatePromptVersion of this client exists beside the first.
C8_OneSaveInFlight ==
    /\ Cardinality(SavesInFlight) <= 1
    /\ isSavingModal <=> SavesInFlight # {}
    /\ Cardinality({i \in DOMAIN calls : calls[i].kind = "update"}) <= 1

\* C8 witness: a save is in flight, the session is open and dirty again, and
\* there is room for another request, yet none can be sent
C8_Witness ==
    /\ Cardinality(SavesInFlight) = 1
    /\ isSavingModal
    /\ IsModalDirty(isEditorOpen, editorTarget, modalContent)
    /\ CanMutate("update")

\* C9: a successful save changes the store in exactly one place: the content
\* of the one entry with the session's version id becomes the saved content.
C9_SaveChangesOneContent ==
    [][\A i \in DOMAIN handlers :
          SaveResumes(i, "ok")
          => \E t \in 1..Len(promptTypes) :
                \E k \in 1..Len(promptTypes[t].versions) :
                   /\ promptTypes[t].versions[k].id
                         = handlers[i].target.promptVersionId
                   /\ promptTypes' =
                        [promptTypes EXCEPT
                            ![t].versions[k].content = handlers[i].content]
      ]_vars

\* C10: when a save is confirmed the store holds the saved content for the
\* saved version, a reconciliation fetch that has not read yet is in flight,
\* and the session is destroyed: editor closed, no target, not saving.
C10_ConfirmedSaveClosesSession ==
    [][\A i \in DOMAIN handlers :
          SaveResumes(i, "ok")
          => /\ StoreContent(promptTypes', handlers[i].target.promptTypeId,
                             handlers[i].target.promptVersionId)
                   = handlers[i].content
             /\ budget' = budget - 1
             /\ \E j \in DOMAIN handlers' :
                   /\ handlers'[j].kind = "fetch"
                   /\ calls'[j].pc = "read"
                   /\ (j = i \/ j \notin DOMAIN handlers)
             /\ ~isEditorOpen'
             /\ editorTarget' = NoTarget
             /\ ~isSavingModal'
      ]_vars

\* the add-version handler i resumes in this step with a created version
AddResumes(i) ==
    /\ handlers[i].kind = "add"
    /\ calls[i].pc = "ok" /\ calls[i].created # NoVersion
    /\ Resumed(i)

\* the step in which handler i resumes issues a getPromptDashboardData call
\* that has not read the table yet
FetchIssued(i) ==
    /\ budget' = budget - 1
    /\ \E j \in DOMAIN handlers' :
          /\ handlers'[j].kind = "fetch"
          /\ calls'[j].kind = "fetch" /\ calls'[j].pc = "read"
          /\ (j = i \/ j \notin DOMAIN handlers)

\* the entries of a sequence as a set
Entries(s) == {s[k] : k \in 1..Len(s)}

\* C11: when createPromptVersion succeeds, the returned version is added to its
\* type in the store (one entry more, the others kept, other types untouched),
\* the Edit Session is open on it with original content = draft = the returned
\* content, and a reconciliation fetch is issued.
C11_CreatedVersionOpensSession ==
    [][\A i \in DOMAIN handlers :
          AddResumes(i)
          => LET t   == handlers[i].typeId
                 v   == calls[i].created
                 old == FindType(promptTypes, t).versions
                 new == FindType(promptTypes', t).versions
             IN  /\ Len(new) = Len(old) + 1
                 /\ Entries(new) = Entries(old) \cup {v}
                 /\ \A u \in 1..Len(promptTypes) :
                       promptTypes[u].id # t => promptTypes'[u] = promptTypes[u]
                 /\ isEditorOpen'
                 /\ editorTarget'.promptTypeId = t
                 /\ editorTarget'.promptVersionId = v.id
                 /\ editorTarget'.originalContent = v.content
                 /\ modalContent' = v.content
                 /\ ~IsModalDirty(isEditorOpen', editorTarget', modalContent')
                 /\ FetchIssued(i)
      ]_vars

\* the add-version handler i resumes in this step without a created version
AddFails(i) ==
    /\ handlers[i].kind = "add"
    /\ calls[i].pc = "err" \/ (calls[i].pc = "ok" /\ calls[i].created = NoVersion)
    /\ Resumed(i)

\* C12: when createPromptVersion fails, the store, the selection and the Edit
\* Session are as before (so no session is opened), no fetch is issued, and
\* the error slot holds a message.
C12_FailedCreateChangesNothing ==
    [][\A i \in DOMAIN handlers :
          AddFails(i)
          => /\ UNCHANGED <<promptTypes, selectedTypeId, selectedVersionId,
                            isEditorOpen, editorTarget, modalContent>>
             /\ budget' = budget
             /\ DOMAIN calls' = DOMAIN calls \ {i}
             /\ error' # NULL
      ]_vars

\* C12 witness: a create has failed while no session was open; the error slot
\* holds its message and no session is open
C12_Witness ==
    /\ error = AddErrorMsg
    /\ ~isCreatingVersion
    /\ ~isEditorOpen
    /\ \A i \in DOMAIN handlers : handlers[i].kind # "add"

\* the set-active handler i resumes in this step with the given answer
SetActiveResumes(i, answer) ==
    /\ handlers[i].kind = "activate"
    /\ calls[i].pc = answer
    /\ Resumed(i)

\* a store entry without its active flag
Unflagged(v) == [id |-> v.id, version |-> v.version, content |-> v.content,
                 createdAt |-> v.createdAt]

\* C13: when setActivePromptVersion succeeds, the store holds the named
\* version with active = true and every other version of its type with
\* active = false; ids, numbers and contents of the type's versions and all
\* versions of other types are as before; a reconciliation fetch is issued.
C13_ActivationFlipsFlagsOfOneType ==
    [][\A i \in DOMAIN handlers :
          SetActiveResumes(i, "ok")
          => LET t   == handlers[i].typeId
                 old == FindType(promptTypes, t).versions
                 new == FindType(promptTypes', t).versions
             IN  /\ \E k \in 1..Len(new) : new[k].id = handlers[i].versionId
                 /\ \A k \in 1..Len(new) :
                       new[k].isActive <=> new[k].id = handlers[i].versionId
                 /\ Len(new) = Len(old)
                 /\ {Unflagged(new[k]) : k \in 1..Len(new)}
                       = {Unflagged(old[k]) : k \in 1..Len(old)}
                 /\ \A u \in 1..Len(promptTypes) :
                       promptTypes[u].id # t => promptTypes'[u] = promptTypes[u]
                 /\ FetchIssued(i)
      ]_vars

\* C14: when setActivePromptVersion fails, the store, the selection and the
\* Edit Session are as before, no fetch is issued, and the error slot holds a
\* message.
C14_FailedActivationChangesNothing ==
    [][\A i \in DOMAIN handlers :
          SetActiveResumes(i, "err")
          => /\ UNCHANGED <<promptTypes, selectedTypeId, selectedVersionId,
                            isEditorOpen, editorTarget, modalContent>>
             /\ budget' = budget
             /\ DOMAIN calls' = DOMAIN calls \ {i}
             /\ error' # NULL
      ]_vars

\* C14 witness: an activation has failed after its first statement ran: the
\* table has no active version in t1, the store still shows version 1 active,
\* and the error slot holds the message
C14_Witness ==
    /\ error = ActiveErrorMsg
    /\ ~isSettingActive
    /\ ActiveRows(db, "t1") = {}
    /\ \E k \in 1..Len(FindType(promptTypes, "t1").versions) :
          FindType(promptTypes, "t1").versions[k].isActive

\* setActivePromptVersion invocations of this client
ClientActivations(cs) ==
    {i \in DOMAIN cs : cs[i].kind = "setActive" /\ cs[i].from = "client"}

\* C15: the client never sends setActivePromptVersion for a version its store
\* shows as active, and handleSetActiveVersion does not get as far as the
\* discard confirmation for such a version: with the active version selected
\* the operation changes nothing.
C15_ActiveVersionIsNotActivatedAgain ==
    [][/\ \A i \in ClientActivations(calls') \ ClientActivations(calls) :
             /\ SelectedVersion # NoVersion
             /\ ~SelectedVersion.isActive
             /\ calls'[i].versionId = SelectedVersion.id
       /\ lastOp'.op = "handleSetActiveVersion"
             => SelectedVersion # NoVersion /\ ~SelectedVersion.isActive
      ]_vars

\* C15 witness: the selected version is active, the page is usable, no
\* activation is in flight and there is room for a request
C15_Witness ==
    /\ SelectedVersion # NoVersion /\ SelectedVersion.isActive
    /\ SelectedVersion.id # "1"
    /\ PageUsable
    /\ ~isSettingActive
    /\ CanMutate("setActive")

\* ------------------------------------------------ Persistence Service claims
\* the table holds a version with this id in this type
RowOfType(d, t, v) == \E n \in 1..Len(d) : IdStr(d[n].id) = v /\ d[n].typeId = t

\* the table holds a version with this id
RowExists(d, v) == \E n \in 1..Len(d) : IdStr(d[n].id) = v

\* C16: setActivePromptVersion answers with success only when the named
\* version exists and belongs to the named type.
C16_UnknownActivationTargetIsRejected ==
    \A i \in DOMAIN calls :
        (calls[i].kind = "setActive" /\ calls[i].pc = "ok")
        => RowOfType(db, calls[i].typeId, calls[i].versionId)

\* C17: updatePromptVersion answers with success only when a version with the
\* given id exists.
C17_UnknownUpdateTargetIsRejected ==
    \A i \in DOMAIN calls :
        (calls[i].kind = "update" /\ calls[i].pc = "ok")
        => RowExists(db, calls[i].versionId)

\* C18: no statement of the service removes a row or changes the id, the
\* owning type or the version number of an existing row; only content and
\* is_active of existing rows change.
C18_IdentityOfVersionsIsImmutable ==
    [][/\ Len(db') >= Len(db)
       /\ \A n \in 1..Len(db) :
             /\ db'[n].id = db[n].id
             /\ db'[n].typeId = db[n].typeId
             /\ db'[n].version = db[n].version
      ]_vars

\* C18 witness: version 2 of t1 has been rewritten and made active and is
\* still row 2, version 2 of t1
C18_Witness ==
    /\ db[2].content = "a" /\ db[2].isActive
    /\ db[2].id = 2 /\ db[2].typeId = "t1" /\ db[2].version = 2

\* ---------------------------------------------------- reconciliation claims
\* the fetch handler i resumes in this step with the given answer
SyncResumes(i, answer) ==
    /\ handlers[i].kind = "fetch"
    /\ calls[i].pc = answer
    /\ Resumed(i)

\* getPromptDashboardData invocations of this client
ClientFetches(cs) ==
    {i \in DOMAIN cs : cs[i].kind = "fetch" /\ cs[i].from = "client"}

\* C19: every handled success of a save, a creation or an activation issues
\* one fetch and nothing else does (the fetch of the initial load is in flight
\* when the page starts); a fetch that succeeds makes the store exactly its
\* snapshot.
C19_ReconciliationReplacesStore ==
    [][/\ \A i \in DOMAIN handlers :
             /\ (SaveResumes(i, "ok") \/ AddResumes(i) \/ SetActiveResumes(i, "ok"))
                   => FetchIssued(i)
             /\ SyncResumes(i, "ok") => promptTypes' = calls[i].snapshot
       /\ (\E j \in ClientFetches(calls') :
              /\ calls'[j].pc = "read"
              /\ (j \notin DOMAIN calls \/ calls[j].pc # "read"))
             => \E i \in DOMAIN handlers :
                   SaveResumes(i, "ok") \/ AddResumes(i) \/ SetActiveResumes(i, "ok")
      ]_vars

\* C19 witness: every request has been answered and handled, and the store is
\* a snapshot of the table that differs from the store the page started with
C19_Witness ==
    /\ handlers = <<>>
    /\ promptTypes = DashboardData(db)
    /\ promptTypes # DashboardData(InitDb)

\* C20: handling a failed fetch changes nothing in the store, the selection,
\* the Edit Session or the error slot, and issues no request.
C20_FailedFetchChangesNothing ==
    [][\A i \in DOMAIN handlers :
          SyncResumes(i, "err")
          => /\ UNCHANGED <<promptTypes, selectedTypeId, selectedVersionId,
                            isEditorOpen, editorTarget, modalContent, error,
                            isSavingModal, isCreatingVersion, isSettingActive>>
             /\ budget' = budget
             /\ DOMAIN calls' = DOMAIN calls \ {i}
      ]_vars

\* C20 witness: the store holds the result of a confirmed mutation, and the
\* reconciliation fetch of that mutation, the only request left, has failed
C20_Witness ==
    /\ promptTypes # DashboardData(InitDb)
    /\ budget = 0
    /\ DOMAIN handlers = DOMAIN calls
    /\ \E i \in DOMAIN handlers :
          /\ DOMAIN handlers = {i}
          /\ handlers[i].kind = "fetch" /\ calls[i].pc = "err"

\* ------------------------------------------------------------- self-healing
\* the Version Store is what a fetch of the table would return now
StoreMatchesService == promptTypes = DashboardData(db)

\* every request has been answered and its answer handled
AllRequestsCompleted == calls = <<>>

\* C21: with fetches that do not fail, whenever every request has been
\* answered and handled the Version Store equals the table (nothing changes
\* either of them while no request is in flight, so they then stay equal
\* until the next mutation is issued).
C21_StoreSelfHeals == AllRequestsCompleted => StoreMatchesService

\* ------------------------------------------------------- save, then fetch
\* the content column of the row with id v
RowContent(d, v) ==
    LET ns == {n \in 1..Len(d) : IdStr(d[n].id) = v}
    IN  IF ns = {} THEN NULL ELSE d[CHOOSE n \in ns : TRUE].content

\* the UPDATE statements of updatePromptVersion that write row n in this step
WritesApplied(n) ==
    {k \in DOMAIN calls : /\ calls[k].kind = "update" /\ calls[k].pc = "exec"
                          /\ calls'[k].pc = "ok"
                          /\ calls[k].versionId = IdStr(db[n].id)
                          /\ calls[k].content = db'[n].content}

\* C22: a confirmed save happens before the fetch it triggers.  The fetch is
\* issued, not yet read, in the step in which handleSaveModal resumes, and in
\* that step the table holds the saved content for the saved version; a fetch
\* returns the table as it is in the later step in which it reads; and the
\* content of a row changes only in a step in which the service applies a write
\* to it.  So the snapshot holds the saved content or the content of a write
\* applied after the save.
C22_SaveHappensBeforeItsFetch ==
    [][/\ \A i \in DOMAIN handlers :
             SaveResumes(i, "ok")
             => /\ FetchIssued(i)
                /\ RowContent(db, handlers[i].target.promptVersionId)
                      = handlers[i].content
                /\ db' = db
       /\ \A j \in ClientFetches(calls) :
             (calls[j].pc = "read" /\ j \in DOMAIN calls' /\ calls'[j].pc = "ok")
             => calls'[j].snapshot = DashboardData(db)
       /\ \A n \in 1..Len(db) :
             db'[n].content # db[n].content => WritesApplied(n) # {}
      ]_vars

\* C22 witness: the fetch of a confirmed save has read the table and returns
\* the saved content, which is not the content the version had before
C22_Witness ==
    \E j \in ClientFetches(calls) :
        /\ calls[j].pc = "ok"
        /\ \E v \in {"1", "2"} :
              /\ StoreContent(calls[j].snapshot, "t1", v)
                    # StoreContent(DashboardData(InitDb), "t1", v)
              /\ StoreContent(promptTypes, "t1", v)
                    = StoreContent(calls[j].snapshot, "t1", v)

\* --------------------------------------------------------- last writer wins
\* updatePromptVersion invocations whose UPDATE has not run yet
WritesPending == {i \in DOMAIN calls : calls[i].kind = "update" /\ calls[i].pc = "exec"}

\* C23: content updates are last-writer-wins.  Whatever other invocations are
\* in flight, the UPDATE of a pending updatePromptVersion can run and succeed;
\* when it runs on an existing version the row holds that call's content,
\* whatever it held; and a row's content changes in no other step.
C23_LastWriterWins ==
    [][/\ \A i \in WritesPending :
             /\ ENABLED (UpdateExec(i) /\ calls'[i].pc = "ok")
             /\ (calls'[i].pc = "ok" /\ RowExists(db, calls[i].versionId))
                   => RowContent(db', calls[i].versionId) = calls[i].content
       /\ \A n \in 1..Len(db) :
             db'[n].content # db[n].content
             => \E k \in WritesPending : /\ calls'[k].pc = "ok"
                                         /\ calls[k].versionId = IdStr(db[n].id)
      ]_vars

\* C23 witness: two overlapping updatePromptVersion calls on version 1 with
\* different contents have both succeeded, and the row holds the content of
\* one of them, which differs from what it held at first
C23_Witness ==
    \E i \in DOMAIN calls, j \in DOMAIN calls :
        /\ calls[i].kind = "update" /\ calls[j].kind = "update"
        /\ calls[i].versionId = "1" /\ calls[j].versionId = "1"
        /\ calls[i].pc = "ok" /\ calls[j].pc = "ok"
        /\ calls[i].content # calls[j].content
        /\ RowContent(db, "1") = calls[j].content
        /\ RowContent(db, "1") # RowContent(InitDb, "1")

\* ------------------------------------------------- activation, one at a time
\* the setActivePromptVersion invocation i runs a statement in this step
ActivationSteps(i) ==
    /\ calls[i].kind = "setActive" /\ calls[i].pc \in {"clear", "set"}
    /\ i \in DOMAIN calls' /\ calls'[i].pc \in {"set", "ok"}

\* C24: when setActivePromptVersion, run with no other invocation in flight,
\* succeeds for a version of the named type, that version is the only active
\* one of the type; neither of its statements touches the flag of a version of
\* another type, or anything but flags.
C24_ActivationAloneLeavesOneActive ==
    [][\A i \in DOMAIN calls :
          ActivationSteps(i)
          => /\ \A n \in 1..Len(db) :
                   db[n].typeId # calls[i].typeId => db'[n] = db[n]
             /\ Len(db') = Len(db)
             /\ \A n \in 1..Len(db) : db'[n] = [db[n] EXCEPT !.isActive = db'[n].isActive]
             /\ (calls'[i].pc = "ok"
                 /\ RowOfType(db, calls[i].typeId, calls[i].versionId))
                   => \A n \in 1..Len(db) :
                         db[n].typeId = calls[i].typeId
                         => (db'[n].isActive <=> IdStr(db[n].id) = calls[i].versionId)
      ]_vars

\* C24 witness: version 2 of t1 was made active after a version of t2 had been
\* made active: version 1 is inactive and t2 still has its active version
C24_Witness ==
    /\ \E i \in DOMAIN calls :
          /\ calls[i].kind = "setActive" /\ calls[i].pc = "ok"
          /\ calls[i].typeId = "t1" /\ calls[i].versionId = "2"
    /\ ActiveRows(db, "t1") = {2}
    /\ ActiveRows(db, "t2") # {}

\* ------------------------------------------------------- created versions
\* createPromptVersion invocations of this client
ClientCreates(cs) ==
    {i \in DOMAIN cs : cs[i].kind = "create" /\ cs[i].from = "client"}

\* baseContent of handleAddVersion(mode), line 349
BaseContent(mode) ==
    IF mode = "copy" /\ SelectedVersion # NoVersion THEN SelectedVersion.content
    ELSE ""

\* C25: handleAddVersion(mode) asks for a version of the selected type with
\* content "" in blank mode and the store's content of the selected version in
\* copy mode; the row createPromptVersion inserts has that content and is not
\* active; the version it returns is a row of the table with the number the
\* service computed; the entry the client adds to the store is the returned
\* version (id and number included).
C25_CreatedVersionIsInactiveCopy ==
    [][/\ \A mode \in {"blank", "copy"} :
             (AddVersion(mode) /\ lastOp'.confirm # "declined")
             => \E j \in ClientCreates(calls') \ ClientCreates(calls) :
                   /\ calls'[j].content = BaseContent(mode)
                   /\ calls'[j].typeId = SelectedType.id
       /\ \A i \in ClientCreates(calls) :
             /\ (calls[i].pc = "insert" /\ i \in DOMAIN calls'
                 /\ calls'[i].pc = "reload")
                   => /\ Len(db') = Len(db) + 1
                      /\ SubSeq(db', 1, Len(db)) = db
                      /\ ~db'[Len(db')].isActive
                      /\ db'[Len(db')].content = calls[i].content
                      /\ db'[Len(db')].typeId = calls[i].typeId
                      /\ db'[Len(db')].version = calls[i].nextVersion
             /\ (calls[i].pc = "reload" /\ i \in DOMAIN calls'
                 /\ calls'[i].pc = "ok")
                   => \E n \in 1..Len(db) :
                         /\ calls'[i].created = VersionOfRow(db[n])
                         /\ db[n].typeId = calls[i].typeId
                         /\ db[n].version = calls[i].nextVersion
       /\ \A i \in DOMAIN handlers :
             AddResumes(i)
             => LET old == FindType(promptTypes, handlers[i].typeId).versions
                    new == FindType(promptTypes', handlers[i].typeId).versions
                IN  /\ calls[i].created \in Entries(new)
                    /\ Entries(new) \ Entries(old) \subseteq {calls[i].created}
      ]_vars

\* C25 witness: version 1 (content "a") was copied: the service created
\* version number 3 of t1, inactive, with content "a", and the store holds it
\* as the service returned it
C25_Witness ==
    /\ Len(db) = 3
    /\ db[3].typeId = "t1" /\ db[3].version = 3
    /\ db[3].content = "a" /\ ~db[3].isActive
    /\ VersionOfRow(db[3]) \in Entries(FindType(promptTypes, "t1").versions)
    /\ isEditorOpen /\ editorTarget.promptVersionId = "3"

\* ---------------------------------------------------------------- end to end
\* the versions the store holds for type t
StoreVersions(store, t) == FindType(store, t).versions

\* the versions of type t as getPromptDashboardData would return them now
ServiceVersions(t) == FindType(DashboardData(db), t).versions

\* C26: in the type that starts without versions (t2), step by step: the
\* first add (blank) yields one version with number 1, empty and inactive;
\* making it active makes it the active version; adding a copy of it then
\* yields number 2 with the content of the first, inactive, and the store's
\* active-first list is [v1, v2]; the table agrees at each step.
C26_EndToEndScenario ==
    [][\A i \in DOMAIN handlers :
          LET old == StoreVersions(promptTypes, "t2")
              new == StoreVersions(promptTypes', "t2")
          IN  /\ (AddResumes(i) /\ handlers[i].typeId = "t2" /\ old = <<>>)
                    => /\ Len(new) = 1
                       /\ new[1].version = 1 /\ new[1].content = ""
                       /\ ~new[1].isActive
                       /\ ServiceVersions("t2") = new
              /\ (SetActiveResumes(i, "ok") /\ handlers[i].typeId = "t2"
                  /\ Len(old) = 1)
                    => /\ new = <<[old[1] EXCEPT !.isActive = TRUE]>>
                       /\ ServiceVersions("t2") = new
              /\ (AddResumes(i) /\ handlers[i].typeId = "t2"
                  /\ Len(old) = 1 /\ old[1].isActive)
                    => /\ Len(new) = 2
                       /\ new[1] = old[1]
                       /\ new[2].version = 2 /\ new[2].content = old[1].content
                       /\ ~new[2].isActive
                       /\ new[2].id # new[1].id
                       /\ StableSort("active", new) = new
                       /\ ServiceVersions("t2") = new
      ]_vars

\* C26 witness: the scenario has run to its end: t2 holds the active version
\* number 1 followed by the inactive version number 2, in the store and in the
\* table, and nothing is in flight
C26_Witness ==
    /\ calls = <<>>
    /\ Len(StoreVersions(promptTypes, "t2")) = 2
    /\ StoreVersions(promptTypes, "t2")[1].version = 1
    /\ StoreVersions(promptTypes, "t2")[1].isActive
    /\ StoreVersions(promptTypes, "t2")[2].version = 2
    /\ ~StoreVersions(promptTypes, "t2")[2].isActive
    /\ StoreVersions(promptTypes, "t2")[2].content
          = StoreVersions(promptTypes, "t2")[1].content
    /\ ServiceVersions("t2") = StoreVersions(promptTypes, "t2")

\* ------------------------------------------------ one active version, store
\* every type of the store has at most one entry with isActive set
OneActivePerType(store) ==
    \A u \in 1..Len(store) :
        Cardinality({k \in 1..Len(store[u].versions) :
                        store[u].versions[k].isActive}) <= 1

\* the snapshots installed in this step
SnapshotsInstalled ==
    {calls[i].snapshot : i \in {j \in DOMAIN handlers : SyncResumes(j, "ok")}}

\* C27: a step that changes the Version Store (a save applied, a version
\* appended, an active change applied, a snapshot installed) leaves at most one
\* active version per type in the store, if the store had at most one before
\* and the snapshot installed, if any, has at most one.
C27_StoreKeepsOneActivePerType ==
    [][(/\ promptTypes' # promptTypes
        /\ OneActivePerType(promptTypes)
        /\ \A snapshot \in SnapshotsInstalled : OneActivePerType(snapshot))
          => OneActivePerType(promptTypes')
      ]_vars

\* ------------------------------------------------------------- Edit Session
\* openEditorForVersion has opened a session in this step
SessionOpened == lastOp'.op = "openEditorForVersion" /\ lastOp'.confirm # "declined"

\* the Edit Session is Open
SessionOpen == isEditorOpen /\ editorTarget # NoTarget

\* C28: a step that opens an Edit Session leaves it Open on a version the
\* store holds, with original content = draft = the content the store holds
\* for that version, hence not dirty; and in every state isModalDirty is true
\* exactly when the session is Open and the draft differs from the original
\* content (the editor is open exactly when it has a target).
C28_OpenedSessionIsClean ==
    [][/\ SessionOpened
          => /\ isEditorOpen' /\ editorTarget' # NoTarget
             /\ modalContent' = editorTarget'.originalContent
             /\ \E e \in Entries(StoreVersions(promptTypes', editorTarget'.promptTypeId)) :
                   /\ e.id = editorTarget'.promptVersionId
                   /\ e.content = editorTarget'.originalContent
                   /\ e.version = editorTarget'.promptVersionNumber
             /\ ~IsModalDirty(isEditorOpen', editorTarget', modalContent')
       /\ isEditorOpen' <=> editorTarget' # NoTarget
       /\ IsModalDirty(isEditorOpen', editorTarget', modalContent')
             <=> (/\ isEditorOpen' /\ editorTarget' # NoTarget
                  /\ modalContent' # editorTarget'.originalContent)
      ]_vars

\* C28 witness: a session was just opened on version 1, whose content in the
\* store is "a": draft and original content are "a" and the session is clean
C28_Witness ==
    /\ lastOp.op = "openEditorForVersion" /\ lastOp.confirm # "declined"
    /\ SessionOpen
    /\ editorTarget.promptVersionId = "1"
    /\ StoreContent(promptTypes, "t1", "1") = "a"
    /\ modalContent = "a" /\ editorTarget.originalContent = "a"
    /\ ~IsModalDirty(isEditorOpen, editorTarget, modalContent)

\* --------------------------------------------------------------- error slot
\* C29: whenever the success of a save, a creation or an activation is
\* handled, the error slot is empty afterwards, whatever failed while the
\* request was in flight.
C29_SuccessClearsErrorSlot ==
    [][\A i \in DOMAIN handlers :
          (SaveResumes(i, "ok") \/ AddResumes(i) \/ SetActiveResumes(i, "ok"))
          => error' = NULL
      ]_vars

\* ------------------------------------------------------------- sort modes
\* how often the version e occurs in the list s
Occurrences(s, e) == Cardinality({k \in 1..Len(s) : s[k] = e})

\* the list out is the list given in another order
IsPermutation(out, given) ==
    /\ Len(out) = Len(given)
    /\ \A e \in Entries(given) \cup Entries(out) :
          Occurrences(out, e) = Occurrences(given, e)

\* the version numbers of a list, in its order
Numbers(s) == [k \in 1..Len(s) |-> s[k].version]

\* the list is versions 1, 2 and 3 in some order with only version 2 active
IsExample(s) ==
    /\ Len(s) = 3
    /\ {s[k].version : k \in 1..3} = {1, 2, 3}
    /\ \A k \in 1..3 : s[k].isActive <=> s[k].version = 2

\* C30: the list shown is a permutation of the selected type's versions; in
\* mode 'active' active versions come before inactive ones and, within each
\* group, numbers descend; in mode 'latest' numbers descend; in mode 'oldest'
\* numbers ascend.  For versions 1, 2, 3 with version 2 active the lists are
\* [2,3,1], [3,2,1] and [1,2,3].
C30_SortModesOrderVersions ==
    LET given == SelectedType.versions
        out   == FilteredVersions
    IN  /\ IsPermutation(out, given)
        /\ \A i \in 1..Len(out), j \in 1..Len(out) :
              i < j =>
                CASE versionSort = "active" ->
                       /\ out[j].isActive => out[i].isActive
                       /\ out[i].isActive = out[j].isActive
                             => out[i].version >= out[j].version
                  [] versionSort = "latest" -> out[i].version >= out[j].version
                  [] versionSort = "oldest" -> out[i].version <= out[j].version
        /\ IsExample(given)
              => Numbers(out) = CASE versionSort = "active" -> <<2, 3, 1>>
                                  [] versionSort = "latest" -> <<3, 2, 1>>
                                  [] versionSort = "oldest" -> <<1, 2, 3>>

\* C30 witness: versions 1, 2, 3 with version 2 active, stored active-first as
\* [2,3,1], are shown in mode 'oldest' as [1,2,3]
C30_Witness ==
    /\ IsExample(SelectedType.versions)
    /\ Numbers(SelectedType.versions) = <<2, 3, 1>>
    /\ versionSort = "oldest"
    /\ Numbers(FilteredVersions) = <<1, 2, 3>>

\* ------------------------------------------------------------ version view
\* the list is in the order of the sort mode
InOrder(mode, s) ==
    \A i \in 1..Len(s), j \in 1..Len(s) :
        i < j =>
          CASE mode = "active" ->
                 /\ s[j].isActive => s[i].isActive
                 /\ s[i].isActive = s[j].isActive => s[i].version >= s[j].version
            [] mode = "latest" -> s[i].version >= s[j].version
            [] mode = "oldest" -> s[i].version <= s[j].version

\* the version is kept by the search text
Kept(version, query) ==
    LET q == ToLowerCase(Trim(query))
    IN  \/ q = ""
        \/ Includes(ToString(version.version), q)
        \/ Includes(ToLowerCase(version.content), q)
        \/ (version.isActive /\ Includes("active", q))

\* C31: the version view holds every version of the selected type the search
\* text keeps exactly once and no other version, and is in the order of the
\* sort mode.  A version is kept exactly when the trimmed, lower-cased query is
\* empty or occurs in its number as text, in its lower-cased content or, for
\* an active version, in the token 'active'.
C31_ViewIsSortOfFilter ==
    LET given == SelectedType.versions
        out   == FilteredVersions
    IN  /\ \A e \in Entries(given) :
              Occurrences(out, e) = IF Kept(e, versionSearchQuery) THEN 1 ELSE 0
        /\ Entries(out) \subseteq Entries(given)
        /\ InOrder(versionSort, out)

\* C31 witness: with the query "aB " and mode 'oldest' the view shows versions
\* 1 and 3 of three, in that order: version 2 (content "v2") is filtered out
\* and the stored order, active first, is not the order shown
C31_Witness ==
    /\ versionSearchQuery = "aB "
    /\ versionSort = "oldest"
    /\ Len(SelectedType.versions) = 3
    /\ Numbers(SelectedType.versions) # <<1, 2, 3>>
    /\ Numbers(FilteredVersions) = <<1, 3>>
    /\ FilteredVersions[1].content = "Ab"

\* ------------------------------------------------------------ leaving Saving
\* every save that enters Saving leaves it
SavingEnds == isSavingModal ~> ~isSavingModal

\* C32: every save that enters Saving leaves it when the service answers, and
\* when its answer is handled the saving flag is false and the session is
\* Closed after a success and Open after a failure.
C32_SavingEnds ==
    /\ SavingEnds
    /\ [][\A i \in DOMAIN handlers :
             /\ SaveResumes(i, "ok")
                   => ~isSavingModal' /\ ~isEditorOpen' /\ editorTarget' = NoTarget
             /\ SaveResumes(i, "err")
                   => ~isSavingModal' /\ isEditorOpen' /\ editorTarget' # NoTarget
         ]_vars

\* --------------------------------------------- the session that issued a save
\* a session on another version than the one save handler i was started for
\* is Open
OtherSessionOpen(i) ==
    /\ SessionOpen
    /\ editorTarget.promptVersionId # handlers[i].target.promptVersionId

\* C33: when the response of a save, success or failure, is handled while a
\* session on another version is Open (the saving session was closed in the
\* meantime), that session stays Open with its target and draft unchanged.
C33_SaveResponseLeavesOtherSession ==
    [][\A i \in DOMAIN handlers :
          ((SaveResumes(i, "ok") \/ SaveResumes(i, "err")) /\ OtherSessionOpen(i))
          => UNCHANGED <<isEditorOpen, editorTarget, modalContent>>
      ]_vars

\* -------------------------------------------------- the draft of a saved session
\* the session save handler i was started for is still the Open one
SavingSessionOpen(i) == SessionOpen /\ editorTarget = handlers[i].target

\* C34: when a successful save destroys the session that issued it, the draft
\* of that session is the content that was sent to the service, and the store,
\* where it holds the version, then holds that content: no draft change made
\* while the save was in flight is dropped.
C34_SavedDraftIsTheDraft ==
    [][\A i \in DOMAIN handlers :
          (SaveResumes(i, "ok") /\ SavingSessionOpen(i))
          => /\ calls[i].content = handlers[i].content
             /\ modalContent = handlers[i].content
             /\ StoreContent(promptTypes, handlers[i].target.promptTypeId,
                             handlers[i].target.promptVersionId) # NULL
                   => StoreContent(promptTypes', handlers[i].target.promptTypeId,
                                   handlers[i].target.promptVersionId)
                         = handlers[i].content
      ]_vars

\* ------------------------------------------------------- one entry per version
\* no two entries of one type of the store have the same version id
OneEntryPerVersion(store) ==
    \A u \in 1..Len(store) :
        \A j \in 1..Len(store[u].versions), k \in 1..Len(store[u].versions) :
            store[u].versions[j].id = store[u].versions[k].id => j = k

\* C35: in every reachable state the Version Store holds at most one entry per
\* version id within a type.
C35_OneEntryPerVersion == OneEntryPerVersion(promptTypes)

\* ------------------------------------------------------------ late snapshots
\* C36: a snapshot read before a mutation was applied at the service is not
\* installed after the mutation's result was applied locally.  Every snapshot
\* is the table as it was when it was read, so a snapshot that differs from
\* the table is an older state of it: a store that shows the table as it is
\* now is not replaced by such a snapshot.
C36_NoOlderSnapshotInstalled ==
    [][\A i \in DOMAIN handlers :
          (SyncResumes(i, "ok") /\ StoreMatchesService)
          => promptTypes' = promptTypes
      ]_vars

\* ------------------------------------------------------- the returned version
\* createPromptVersion invocation i returns a version in this step
CreateReturns(i) ==
    /\ calls[i].kind = "create" /\ calls[i].pc = "reload"
    /\ i \in DOMAIN calls' /\ calls'[i].pc = "ok"

\* C37: the version createPromptVersion returns is the row the call inserted:
\* a row of the call's type with the call's content (its baseContent, empty
\* when absent), one call or several at a time.
C37_CreateReturnsItsOwnRow ==
    [][\A i \in DOMAIN calls :
          CreateReturns(i)
          => /\ calls'[i].created.content = calls[i].content
             /\ \E n \in 1..Len(db) : /\ calls'[i].created = VersionOfRow(db[n])
                                      /\ db[n].typeId = calls[i].typeId
      ]_vars

\* ------------------------------------------------------ failed activations
\* the is_active column of the table, row by row
ActiveFlags(d) == [n \in 1..Len(d) |-> d[n].isActive]

\* setActivePromptVersion invocation i runs its first UPDATE in this step
ActivationClears(i) ==
    /\ calls[i].kind = "setActive" /\ calls[i].pc = "clear"
    /\ i \in DOMAIN calls' /\ calls'[i].pc = "set"

\* setActivePromptVersion invocation i fails at its second UPDATE in this step
ActivationFailsHalfway(i) ==
    /\ calls[i].kind = "setActive" /\ calls[i].pc = "set"
    /\ i \in DOMAIN calls' /\ calls'[i].pc = "err"

\* C38: a setActivePromptVersion that ends without its target active in the
\* named type leaves the active flags as they were before the call.  With one
\* invocation at a time: the first UPDATE of a call whose target is not a
\* version of the named type (the call cannot make it active) changes no
\* flag; and a call issued for a version of a type with exactly one active
\* version that fails at its second UPDATE leaves that type with exactly one
\* active version.
C38_FailedActivationKeepsFlags ==
    [][\A i \in DOMAIN calls :
          /\ (ActivationClears(i)
               /\ ~RowOfType(db, calls[i].typeId, calls[i].versionId))
                => ActiveFlags(db') = ActiveFlags(db)
          /\ (ActivationFailsHalfway(i) /\ calls[i].pre)
                => Cardinality(ActiveRows(db', calls[i].typeId)) = 1
      ]_vars

\* ------------------------------------------------- snapshots and the session
\* C39: handling a successful fetch, which installs its snapshot, leaves the
\* Edit Session (open or closed, saving or not, target with its original
\* content, draft) and the error slot as they are, whatever the snapshot holds
\* for the version being edited.
C39_SnapshotLeavesSession ==
    [][\A i \in DOMAIN handlers :
          SyncResumes(i, "ok")
          => UNCHANGED <<isEditorOpen, editorTarget, modalContent, isSavingModal,
                         error>>
      ]_vars

\* C39 witness: a session is open with a changed draft on a version for which
\* the store, a snapshot of the table as it is now, holds another content than
\* the session's original content
C39_Witness ==
    /\ SessionOpen
    /\ StoreMatchesService
    /\ modalContent # editorTarget.originalContent
    /\ StoreContent(promptTypes, editorTarget.promptTypeId,
                    editorTarget.promptVersionId) # NULL
    /\ StoreContent(promptTypes, editorTarget.promptTypeId,
                    editorTarget.promptVersionId) # editorTarget.originalContent

====
